---- MODULE Spec2Model ----
(***************************************************************************)
(* Model of the candid renderer: the backend registry (backend.c) and the  *)
(* renderer facade (renderer.c) over the backend interface (backend.h).    *)
(* Every API call is one action; the record `last` keeps what the most     *)
(* recent call returned and which effects it had (backend calls, table     *)
(* slots read, allocations, objects dereferenced).                         *)
(***************************************************************************)
EXTENDS Integers, Sequences, FiniteSets, TLC

(***************************************************************************)
(* Program constants                                                       *)
(***************************************************************************)
NULL == 0
\* A null pointer where the model passes the pointed-to structure itself
\* (configuration, camera, matrix).
NullPtr == [null |-> TRUE]

CANDID_BACKEND_AUTO == 0
CANDID_BACKEND_METAL == 1
CANDID_BACKEND_VULKAN == 2
CANDID_BACKEND_D3D12 == 3
CANDID_BACKEND_WEBGPU == 4
CANDID_BACKEND_COUNT == 5

CANDID_SUCCESS == 0
CANDID_ERROR_INVALID_ARGUMENT == 1
CANDID_ERROR_OUT_OF_MEMORY == 2
CANDID_ERROR_BACKEND_NOT_SUPPORTED == 3
CANDID_ERROR_DEVICE_LOST == 4
CANDID_ERROR_SHADER_COMPILATION == 5
CANDID_ERROR_RESOURCE_CREATION == 6
CANDID_ERROR_UNKNOWN == 7

Candid_Result == CANDID_SUCCESS..CANDID_ERROR_UNKNOWN

\* Addresses of the statically defined interface tables.
candid_metal_backend == 11
candid_vulkan_backend == 12

\* The platform macros that decide what is compiled in.
Macros == {"__APPLE__", "CANDID_VULKAN_SUPPORT", "_WIN32"}

(***************************************************************************)
(* Bounds                                                                  *)
(***************************************************************************)
\* Candid_Backend arguments range over 0 .. CANDID_BACKEND_COUNT + MaxExtra,
\* so that values past the end of the enumeration are tried.
MaxExtra == 1
\* Largest max_count handed to candid_backend_get_available.
MaxCount == 3
\* Number of renderer objects (and devices) the heap can hand out.
MaxRenderers == 1
\* Largest surface width / height.
MaxDim == 1
\* Cap of the frame counter.
MaxFrames == 1
\* Cap of the begin_frame / end_frame calls the frame loop makes.
MaxLoop == 2
\* Largest surface width / height the camera scenario uses (800x600 is 4x3
\* in units of 200 pixels).
MaxCameraDim == 4
\* Number of blocks the allocator can hand out for mesh buffers.
MaxBuffers == 4
\* Largest small segment / ring count handed to a generator.
MaxSegments == 3
\* Largest small subdivision count handed to the plane generator.
MaxSubdivisions == 2
\* Largest cube size.
MaxSize == 1
\* Largest coordinate of a vertex position of a hand-made mesh.
MaxCoord == 1
\* Largest number of vertices of a mesh handed to calculate_aabb.
MaxVerts == 3

BackendArgs == 0..(CANDID_BACKEND_COUNT + MaxExtra)
Slots == 0..(CANDID_BACKEND_COUNT - 1)
Dims == 0..MaxDim
RendererAddrs == 1..MaxRenderers
DeviceAddrs == 1..MaxRenderers
BufferAddrs == 1..MaxBuffers

VARIABLES
  build,          \* the macros defined in this build
  s_backends,     \* backend.c: static table, slot -> interface or NULL
  s_initialized,  \* backend.c: static flag
  heap,           \* renderer address -> "unalloc" | "live" | "freed"
  obj,            \* renderer address -> struct Candid_Renderer
  devices,        \* device address -> "unalloc" | "live" | "destroyed"
  handle,         \* the application's Candid_Renderer* variable
  pc,             \* "running" | "crashed"
  last,           \* the most recent API call and its effects
  frames,         \* the application's frame loop: begin_frame calls accepted
                  \* and not yet matched by an end_frame, end_frame calls made
  mesh_data,      \* the application's Candid_MeshData descriptor
  buffers,        \* buffer address -> block of the allocator
  generated,      \* generator calls that returned Success so far: 0, 1, or
                  \* 2 for two or more
  threads         \* thread -> where it stands in its call of
                  \* candid_backend_get, and its locals

vars == <<build, s_backends, s_initialized, heap, obj, devices, handle, pc, last,
          frames, mesh_data, buffers, generated, threads>>

meshVars == <<mesh_data, buffers, generated>>

\* What belongs to the application and its threads rather than to the
\* library.
appVars == <<frames, threads>>

registryVars == <<s_backends, s_initialized>>
facadeVars == <<heap, obj, devices, handle>>

\* The two threads of the concurrent first call.
Threads == {1, 2}

\* A thread that has not called the registry yet: the function it is in,
\* the argument of its call, its local `backend`, what each of its reads of
\* s_initialized found (the flag and the table of that moment), and the
\* pointer its call returned.
NoThread ==
  [at |-> "idle", in |-> "none", arg |-> 0, backend |-> 0, checks |-> <<>>,
   ret |-> NULL]

\* The registry state as one value.
Reg == [backends |-> s_backends, initialized |-> s_initialized]

\* calloc(1, sizeof(Candid_Renderer)): every field zero.
ZeroRenderer ==
  [backend_type |-> 0, backend |-> NULL, device |-> NULL,
   clear_color |-> [kind |-> "zero"], view_matrix |-> [kind |-> "zero"],
   projection_matrix |-> [kind |-> "zero"], time |-> 0, delta_time |-> 0,
   frame_count |-> 0, width |-> 0, height |-> 0]

\* What a call hands back: a value, nothing, or no return at all because the
\* process faulted.
V(x) == [v |-> x]
Void == [void |-> TRUE]
Crash == [crash |-> TRUE]

\* The record of a call: its name, arguments and return, the backend entries
\* it called, the registry functions it called, the table slots it read, the
\* stores it made into the caller's array, the renderers it dereferenced, the
\* outcome of each calloc, whether it stored through its out pointer, and (for
\* a registry call) whether it found s_initialized already set.
NoFrames == [open |-> 0, ended |-> 0]

NoCall ==
  [op |-> "none", arg |-> <<>>, ret |-> Void, calls |-> <<>>, lookups |-> <<>>,
   reads |-> {}, outw |-> <<>>, deref |-> {}, allocs |-> <<>>, wrote_out |-> FALSE,
   was_initialized |-> FALSE, frees |-> <<>>, iread |-> {}, vaccess |-> {},
   again |-> FALSE]

Call(op, arg, ret) == [NoCall EXCEPT !.op = op, !.arg = arg, !.ret = ret]

(***************************************************************************)
(* backend.c : registry                                                    *)
(***************************************************************************)

\* Plausible slip: the guard is inverted, so the first call returns before
\* anything is stored.
init_backends_inverted_guard(reg) ==
  IF ~reg.initialized
    THEN reg
    ELSE [backends |->
            [i \in Slots |->
               IF i = CANDID_BACKEND_METAL /\ "__APPLE__" \in build
                 THEN candid_metal_backend
               ELSE IF i = CANDID_BACKEND_VULKAN /\ "CANDID_VULKAN_SUPPORT" \in build
                 THEN candid_vulkan_backend
               ELSE reg.backends[i]],
          initialized |-> TRUE]

\* init_backends(): returns at once when already initialized, else stores
\* the compiled-in interfaces (the D3D12 store is commented out) and sets
\* the flag.
init_backends(reg) ==
  IF reg.initialized
    THEN reg
    ELSE [backends |->
            [i \in Slots |->
               IF i = CANDID_BACKEND_METAL /\ "__APPLE__" \in build
                 THEN candid_metal_backend
               ELSE IF i = CANDID_BACKEND_VULKAN /\ "CANDID_VULKAN_SUPPORT" \in build
                 THEN candid_vulkan_backend
               ELSE reg.backends[i]],
          initialized |-> TRUE]

\* Plausible slip: the cross-platform API is tried before the native one.
candid_backend_get_preferred_vulkan_first(reg) ==
  LET r == init_backends(reg)
      t == r.backends
  IN IF "CANDID_VULKAN_SUPPORT" \in build /\ t[CANDID_BACKEND_VULKAN] # NULL
       THEN [reg |-> r, ret |-> CANDID_BACKEND_VULKAN, reads |-> {CANDID_BACKEND_VULKAN}]
     ELSE IF "__APPLE__" \in build /\ t[CANDID_BACKEND_METAL] # NULL
       THEN [reg |-> r, ret |-> CANDID_BACKEND_METAL, reads |-> {CANDID_BACKEND_METAL}]
     ELSE [reg |-> r, ret |-> CANDID_BACKEND_AUTO, reads |-> {}]

\* candid_backend_get_preferred(): result, registry afterwards, slots read.
candid_backend_get_preferred(reg) ==
  LET r == init_backends(reg)
      t == r.backends
      rdM == IF "__APPLE__" \in build THEN {CANDID_BACKEND_METAL} ELSE {}
      rdV == IF "CANDID_VULKAN_SUPPORT" \in build THEN {CANDID_BACKEND_VULKAN} ELSE {}
      rdD == IF "_WIN32" \in build THEN {CANDID_BACKEND_D3D12} ELSE {}
  IN IF "__APPLE__" \in build /\ t[CANDID_BACKEND_METAL] # NULL
       THEN [reg |-> r, ret |-> CANDID_BACKEND_METAL, reads |-> rdM]
     ELSE IF "CANDID_VULKAN_SUPPORT" \in build /\ t[CANDID_BACKEND_VULKAN] # NULL
       THEN [reg |-> r, ret |-> CANDID_BACKEND_VULKAN, reads |-> rdM \cup rdV]
     ELSE IF "_WIN32" \in build /\ t[CANDID_BACKEND_D3D12] # NULL
       THEN [reg |-> r, ret |-> CANDID_BACKEND_D3D12, reads |-> rdM \cup rdV \cup rdD]
     ELSE [reg |-> r, ret |-> CANDID_BACKEND_AUTO, reads |-> rdM \cup rdV \cup rdD]

\* Plausible slip: AUTO is not resolved, slot 0 is returned for it.
candid_backend_get_no_auto(backend, reg) ==
  LET r == init_backends(reg)
  IN IF backend >= CANDID_BACKEND_COUNT
       THEN [reg |-> r, ret |-> NULL, reads |-> {}]
       ELSE [reg |-> r, ret |-> r.backends[backend], reads |-> {backend}]

\* candid_backend_get(backend)
candid_backend_get(backend, reg) ==
  LET r == init_backends(reg)
      p == IF backend = CANDID_BACKEND_AUTO
             THEN candid_backend_get_preferred(r)
             ELSE [reg |-> r, ret |-> backend, reads |-> {}]
  IN IF p.ret >= CANDID_BACKEND_COUNT
       THEN [reg |-> p.reg, ret |-> NULL, reads |-> p.reads]
       ELSE [reg |-> p.reg, ret |-> p.reg.backends[p.ret],
             reads |-> p.reads \cup {p.ret}]

\* Plausible slip: AUTO is reported available whatever is registered.
candid_backend_is_available_auto_true(backend, reg) ==
  LET r == init_backends(reg)
  IN IF backend = CANDID_BACKEND_AUTO
       THEN [reg |-> r, ret |-> TRUE, reads |-> {}]
     ELSE IF backend >= CANDID_BACKEND_COUNT
       THEN [reg |-> r, ret |-> FALSE, reads |-> {}]
     ELSE [reg |-> r, ret |-> r.backends[backend] # NULL, reads |-> {backend}]

\* candid_backend_is_available(backend)
candid_backend_is_available(backend, reg) ==
  LET r == init_backends(reg)
  IN IF backend = CANDID_BACKEND_AUTO
       THEN LET p == candid_backend_get_preferred(r)
            IN [reg |-> p.reg, ret |-> p.ret # CANDID_BACKEND_AUTO, reads |-> p.reads]
     ELSE IF backend >= CANDID_BACKEND_COUNT
       THEN [reg |-> r, ret |-> FALSE, reads |-> {}]
     ELSE [reg |-> r, ret |-> r.backends[backend] # NULL, reads |-> {backend}]

\* The loop of candid_backend_get_available, from index i with the writes
\* made so far: outw is the sequence of <<index, value>> stores into out.
RECURSIVE get_available_loop(_, _, _, _, _, _)
get_available_loop(t, out, max_count, i, count, outw) ==
  IF i < CANDID_BACKEND_COUNT /\ count < max_count
    THEN IF t[i] # NULL
           THEN get_available_loop(t, out, max_count, i + 1, count + 1,
                                   IF out # NULL THEN Append(outw, <<count, i>>) ELSE outw)
           ELSE get_available_loop(t, out, max_count, i + 1, count, outw)
    ELSE [count |-> count, outw |-> outw]

\* Plausible slip: the scan starts at slot 0 and stores without looking at
\* the slot.
candid_backend_get_available_from_zero(out, max_count, reg) ==
  LET r == init_backends(reg)
      n == IF max_count < CANDID_BACKEND_COUNT THEN max_count ELSE CANDID_BACKEND_COUNT
  IN [reg |-> r, ret |-> n,
      outw |-> IF out # NULL THEN [k \in 1..n |-> <<k - 1, k - 1>>] ELSE <<>>]

\* Plausible slip: the bound on count is tested with <= instead of <.
RECURSIVE get_available_loop_le(_, _, _, _, _, _)
get_available_loop_le(t, out, max_count, i, count, outw) ==
  IF i < CANDID_BACKEND_COUNT /\ count <= max_count
    THEN IF t[i] # NULL
           THEN get_available_loop_le(t, out, max_count, i + 1, count + 1,
                                      IF out # NULL THEN Append(outw, <<count, i>>) ELSE outw)
           ELSE get_available_loop_le(t, out, max_count, i + 1, count, outw)
    ELSE [count |-> count, outw |-> outw]

candid_backend_get_available_le(out, max_count, reg) ==
  LET r == init_backends(reg)
      l == get_available_loop_le(r.backends, out, max_count, 1, 0, <<>>)
  IN [reg |-> r, ret |-> l.count, outw |-> l.outw]

\* candid_backend_get_available(out, max_count)
candid_backend_get_available(out, max_count, reg) ==
  LET r == init_backends(reg)
      l == get_available_loop(r.backends, out, max_count, 1, 0, <<>>)
  IN [reg |-> r, ret |-> l.count, outw |-> l.outw]

(***************************************************************************)
(* Registry calls made by the application                                  *)
(***************************************************************************)
Get(backend) ==
  /\ pc = "running"
  /\ LET c == candid_backend_get(backend, Reg)
     IN /\ s_backends' = c.reg.backends
        /\ s_initialized' = c.reg.initialized
        /\ last' = [Call("candid_backend_get", <<backend>>, V(c.ret)) EXCEPT !.reads = c.reads,
                                                            !.was_initialized = s_initialized]
  /\ UNCHANGED <<build, facadeVars, pc>>

GetPreferred ==
  /\ pc = "running"
  /\ LET c == candid_backend_get_preferred(Reg)
     IN /\ s_backends' = c.reg.backends
        /\ s_initialized' = c.reg.initialized
        /\ last' = [Call("candid_backend_get_preferred", <<>>, V(c.ret)) EXCEPT !.reads = c.reads,
                                                            !.was_initialized = s_initialized]
  /\ UNCHANGED <<build, facadeVars, pc>>

IsAvailable(backend) ==
  /\ pc = "running"
  /\ LET c == candid_backend_is_available(backend, Reg)
     IN /\ s_backends' = c.reg.backends
        /\ s_initialized' = c.reg.initialized
        /\ last' = [Call("candid_backend_is_available", <<backend>>, V(c.ret)) EXCEPT !.reads = c.reads,
                                                            !.was_initialized = s_initialized]
  /\ UNCHANGED <<build, facadeVars, pc>>

\* out is NULL or the address of an array of max_count elements.
GetAvailable(out, max_count) ==
  /\ pc = "running"
  /\ LET c == candid_backend_get_available(out, max_count, Reg)
     IN /\ s_backends' = c.reg.backends
        /\ s_initialized' = c.reg.initialized
        /\ last' = [Call("candid_backend_get_available", <<out, max_count>>, V(c.ret))
                      EXCEPT !.outw = c.outw, !.was_initialized = s_initialized]
  /\ UNCHANGED <<build, facadeVars, pc>>

RegistryCall ==
  /\ \/ \E b \in BackendArgs : Get(b)
     \/ GetPreferred
     \/ \E b \in BackendArgs : IsAvailable(b)
     \/ \E out \in {NULL, 1}, n \in 0..MaxCount : GetAvailable(out, n)
  /\ UNCHANGED <<appVars, meshVars>>

(***************************************************************************)
(* Backends behind the interface                                           *)
(***************************************************************************)
\* backend_vulkan.c: what each entry returns for a non-null device.
vulkan_entry_result(entry) ==
  IF entry \in {"device_get_limits", "swapchain_resize", "swapchain_present"}
    THEN CANDID_SUCCESS
    ELSE CANDID_ERROR_RESOURCE_CREATION

\* The result codes the Metal backend hands back through the interface.
MetalResults == {CANDID_SUCCESS, CANDID_ERROR_INVALID_ARGUMENT, CANDID_ERROR_DEVICE_LOST}

\* The Metal backend: any code of the closed enumeration the model tries.
metal_entry_result(entry) == MetalResults

\* The codes a call of `entry` through `iface` can return.
backend_entry_results(iface, entry) ==
  IF iface = candid_vulkan_backend
    THEN {vulkan_entry_result(entry)}
    ELSE metal_entry_result(entry)

FreeDevices == {d \in DeviceAddrs : devices[d] = "unalloc"}
FreeRenderers == {a \in RendererAddrs : heap[a] = "unalloc"}
Least(S) == CHOOSE x \in S : \A y \in S : x <= y

\* vulkan_device_create(desc, out) with desc and out non-null: volk may be
\* missing, calloc may fail, vkCreateInstance may fail (the device is freed
\* again); otherwise the device is stored through out.
vulkan_device_create ==
  {[ret |-> c, device |-> NULL] :
     c \in {CANDID_ERROR_BACKEND_NOT_SUPPORTED, CANDID_ERROR_OUT_OF_MEMORY,
            CANDID_ERROR_RESOURCE_CREATION}}
  \cup {[ret |-> CANDID_SUCCESS, device |-> d] : d \in {x \in FreeDevices : x = Least(FreeDevices)}}

\* The Metal device_create: fails with a code and no device, or succeeds
\* and stores a device.
metal_device_create ==
  {[ret |-> c, device |-> NULL] : c \in MetalResults \ {CANDID_SUCCESS}}
  \cup {[ret |-> CANDID_SUCCESS, device |-> d] : d \in {x \in FreeDevices : x = Least(FreeDevices)}}

device_create(iface) ==
  IF iface = candid_vulkan_backend THEN vulkan_device_create ELSE metal_device_create

(***************************************************************************)
(* renderer.c : lifecycle                                                  *)
(***************************************************************************)
Identity == [kind |-> "identity"]
DefaultClearColor == [kind |-> "default"]

\* Plausible slip: only the configuration is tested.
create_invalid_argument_config_only(config, out) == config = NullPtr

\* if (!config || !out)
create_invalid_argument(config, out) == config = NullPtr \/ out = NULL

\* Backend selection of candid_renderer_create: AUTO is replaced by the
\* preferred backend, then the interface is looked up.
create_select_backend(requested, reg) ==
  LET p == IF requested = CANDID_BACKEND_AUTO
             THEN candid_backend_get_preferred(reg)
             ELSE [reg |-> reg, ret |-> requested, reads |-> {}]
      g == candid_backend_get(p.ret, p.reg)
  IN [reg |-> g.reg, backend |-> p.ret, iface |-> g.ret,
      lookups |-> IF requested = CANDID_BACKEND_AUTO
                    THEN <<"candid_backend_get_preferred", "candid_backend_get">>
                    ELSE <<"candid_backend_get">>]

\* Plausible slip: the error path returns without free(renderer).
create_abort_leak(h, a) == [h EXCEPT ![a] = "live"]

\* free(renderer) on the error paths of candid_renderer_create: nothing
\* refers to the block, so the allocator has it back.
create_abort(h, a) == [h EXCEPT ![a] = "unalloc"]

\* Plausible slip: the device handed back by device_create is not stored.
create_fill_no_device(sel, device, config) ==
  [backend_type |-> sel.backend, backend |-> sel.iface, device |-> NULL,
   clear_color |-> DefaultClearColor, view_matrix |-> Identity,
   projection_matrix |-> Identity, time |-> 0, delta_time |-> 0,
   frame_count |-> 0, width |-> config.width, height |-> config.height]

\* The renderer as candid_renderer_create leaves it on success.
create_fill(sel, device, config) ==
  [backend_type |-> sel.backend, backend |-> sel.iface, device |-> device,
   clear_color |-> DefaultClearColor, view_matrix |-> Identity,
   projection_matrix |-> Identity, time |-> 0, delta_time |-> 0,
   frame_count |-> 0, width |-> config.width, height |-> config.height]

candid_renderer_create(config, out) ==
  /\ pc = "running"
  /\ LET op == "candid_renderer_create"
         arg == <<config, out>>
     IN IF create_invalid_argument(config, out)
          THEN /\ last' = Call(op, arg, V(CANDID_ERROR_INVALID_ARGUMENT))
               /\ UNCHANGED <<registryVars, facadeVars, pc>>
          ELSE \/ \* calloc returns NULL
                  /\ last' = [Call(op, arg, V(CANDID_ERROR_OUT_OF_MEMORY))
                                EXCEPT !.allocs = <<"fail">>]
                  /\ UNCHANGED <<registryVars, facadeVars, pc>>
               \/ /\ FreeRenderers # {}
                  /\ LET a == Least(FreeRenderers)
                         sel == create_select_backend(config.backend, Reg)
                     IN /\ s_backends' = sel.reg.backends
                        /\ s_initialized' = sel.reg.initialized
                        /\ IF sel.iface = NULL
                             THEN /\ heap' = create_abort([heap EXCEPT ![a] = "live"], a)
                                  /\ last' = [Call(op, arg, V(CANDID_ERROR_BACKEND_NOT_SUPPORTED))
                                                EXCEPT !.allocs = <<"ok">>,
                                                       !.lookups = sel.lookups]
                                  /\ UNCHANGED <<obj, devices, handle, pc>>
                             ELSE \E dc \in device_create(sel.iface) :
                                    LET bc == <<[entry |-> "device_create", device |-> NULL,
                                                 ret |-> V(dc.ret)]>>
                                    IN IF dc.ret # CANDID_SUCCESS
                                         THEN /\ heap' = create_abort([heap EXCEPT ![a] = "live"], a)
                                              /\ last' = [Call(op, arg, V(dc.ret))
                                                            EXCEPT !.allocs = <<"ok">>,
                                                                   !.lookups = sel.lookups,
                                                                   !.calls = bc]
                                              /\ UNCHANGED <<obj, devices, handle, pc>>
                                         ELSE /\ heap' = [heap EXCEPT ![a] = "live"]
                                              /\ obj' = [obj EXCEPT ![a] = create_fill(sel, dc.device, config)]
                                              /\ devices' = [devices EXCEPT ![dc.device] = "live"]
                                              /\ IF out # NULL
                                                   THEN /\ handle' = a
                                                        /\ pc' = pc
                                                        /\ last' = [Call(op, arg, V(CANDID_SUCCESS))
                                                                      EXCEPT !.allocs = <<"ok">>,
                                                                             !.lookups = sel.lookups,
                                                                             !.calls = bc,
                                                                             !.wrote_out = TRUE]
                                                   ELSE \* *out = renderer through a null pointer
                                                        /\ handle' = handle
                                                        /\ pc' = "crashed"
                                                        /\ last' = [Call(op, arg, Crash)
                                                                      EXCEPT !.allocs = <<"ok">>,
                                                                             !.lookups = sel.lookups,
                                                                             !.calls = bc]
  /\ UNCHANGED build

\* The device pointers a freed renderer can still hold: devices that
\* candid_renderer_destroy has destroyed.
StaleDevices ==
  IF \E d \in DeviceAddrs : devices[d] = "destroyed"
    THEN {d \in DeviceAddrs : devices[d] = "destroyed"}
    ELSE {NULL}

\* The interfaces a freed renderer can still point to.
Registered == {s_backends[i] : i \in Slots} \ {NULL}

\* A call that reads a renderer that candid_renderer_destroy has freed.
\* The read is undefined: the process faults, or the call goes on with
\* what the freed block still holds and reaches the backend with a device
\* that is already destroyed, returning what that backend returns (any
\* value of `rets` when no backend entry is involved).
UseAfterFree(op, arg, renderer, entries, rets) ==
  /\ \/ /\ pc' = "crashed"
        /\ last' = [Call(op, arg, Crash) EXCEPT !.deref = {renderer}]
     \/ /\ pc' = pc
        /\ \E ret \in rets, dev \in StaleDevices :
             last' = [Call(op, arg, ret)
                        EXCEPT !.deref = {renderer},
                               !.calls = [i \in 1..Len(entries) |->
                                            [entry |-> entries[i], device |-> dev, ret |-> ret]]]
  /\ UNCHANGED <<registryVars, facadeVars>>

candid_renderer_destroy(renderer) ==
  /\ pc = "running"
  /\ LET op == "candid_renderer_destroy"
         arg == <<renderer>>
     IN IF renderer = NULL
          THEN /\ last' = Call(op, arg, Void)
               /\ UNCHANGED <<registryVars, facadeVars, pc>>
        ELSE IF heap[renderer] = "live"
          THEN LET r == obj[renderer]
                   called == r.backend # NULL /\ r.device # NULL
               IN /\ devices' = IF called THEN [devices EXCEPT ![r.device] = "destroyed"]
                                          ELSE devices
                  /\ heap' = [heap EXCEPT ![renderer] = "freed"]
                  /\ obj' = [obj EXCEPT ![renderer] = ZeroRenderer]
                  /\ last' = [Call(op, arg, Void)
                                EXCEPT !.deref = {renderer},
                                       !.calls = IF called
                                                   THEN <<[entry |-> "device_destroy",
                                                           device |-> r.device, ret |-> Void]>>
                                                   ELSE <<>>]
                  /\ UNCHANGED <<registryVars, handle, pc>>
        ELSE UseAfterFree(op, arg, renderer, <<"device_destroy">>, {Void})
  /\ UNCHANGED build

(***************************************************************************)
(* renderer.c : calls forwarded to the backend                             *)
(***************************************************************************)
\* The shape shared by the forwarding functions that return a result:
\* null check, then exactly one call of `entry` with renderer->device, whose
\* code is returned.  obj1 is the renderer as written before that call.
Forward(op, arg, renderer, entry, obj1) ==
  /\ pc = "running"
  /\ IF renderer = NULL
       THEN /\ last' = Call(op, arg, V(CANDID_ERROR_INVALID_ARGUMENT))
            /\ UNCHANGED <<registryVars, facadeVars, pc>>
     ELSE IF heap[renderer] = "live"
       THEN /\ \E code \in backend_entry_results(obj[renderer].backend, entry) :
                 last' = [Call(op, arg, V(code))
                            EXCEPT !.deref = {renderer},
                                   !.calls = <<[entry |-> entry,
                                                device |-> obj[renderer].device,
                                                ret |-> V(code)]>>]
            /\ obj' = [obj EXCEPT ![renderer] = obj1]
            /\ UNCHANGED <<registryVars, heap, devices, handle, pc>>
     ELSE UseAfterFree(op, arg, renderer, <<entry>>,
                       {V(c) : c \in UNION {backend_entry_results(i, entry) : i \in Registered}})
  /\ UNCHANGED build

\* The shape shared by the destroy_* functions: null check, then one call.
ForwardVoid(op, arg, renderer, entry) ==
  /\ pc = "running"
  /\ IF renderer = NULL
       THEN /\ last' = Call(op, arg, Void)
            /\ UNCHANGED <<registryVars, facadeVars, pc>>
     ELSE IF heap[renderer] = "live"
       THEN /\ last' = [Call(op, arg, Void)
                          EXCEPT !.deref = {renderer},
                                 !.calls = <<[entry |-> entry,
                                              device |-> obj[renderer].device,
                                              ret |-> Void]>>]
            /\ UNCHANGED <<registryVars, facadeVars, pc>>
     ELSE UseAfterFree(op, arg, renderer, <<entry>>, {Void})
  /\ UNCHANGED build

\* A function that only reads or writes fields of the renderer: val is what
\* it returns, obj1 the renderer afterwards; on a freed renderer the access
\* is undefined and any value of `rets` may come back.
Access(op, arg, renderer, nullret, val, obj1, rets) ==
  /\ pc = "running"
  /\ IF renderer = NULL
       THEN /\ last' = Call(op, arg, nullret)
            /\ UNCHANGED <<registryVars, facadeVars, pc>>
     ELSE IF heap[renderer] = "live"
       THEN /\ last' = [Call(op, arg, val) EXCEPT !.deref = {renderer}]
            /\ obj' = [obj EXCEPT ![renderer] = obj1]
            /\ UNCHANGED <<registryVars, heap, devices, handle, pc>>
     ELSE UseAfterFree(op, arg, renderer, <<>>, rets)
  /\ UNCHANGED build

\* A function that ignores all its arguments.
Ignore(op, arg, ret) ==
  /\ pc = "running"
  /\ last' = Call(op, arg, ret)
  /\ UNCHANGED <<build, registryVars, facadeVars, pc>>

\* The struct a pointer refers to (the zero struct for a null pointer, which
\* no function reads).
At(renderer) == IF renderer = NULL THEN ZeroRenderer ELSE obj[renderer]

\* Plausible slip: the size is stored only when the backend accepted it.
candid_renderer_resize_rolled_back(renderer, width, height) ==
  /\ pc = "running"
  /\ IF renderer = NULL
       THEN /\ last' = Call("candid_renderer_resize", <<renderer, width, height>>,
                            V(CANDID_ERROR_INVALID_ARGUMENT))
            /\ UNCHANGED <<registryVars, facadeVars, pc>>
     ELSE IF heap[renderer] = "live"
       THEN /\ \E code \in backend_entry_results(obj[renderer].backend, "swapchain_resize") :
                 /\ last' = [Call("candid_renderer_resize", <<renderer, width, height>>, V(code))
                               EXCEPT !.deref = {renderer},
                                      !.calls = <<[entry |-> "swapchain_resize",
                                                   device |-> obj[renderer].device,
                                                   ret |-> V(code)]>>]
                 /\ obj' = [obj EXCEPT ![renderer] =
                              IF code = CANDID_SUCCESS
                                THEN [@ EXCEPT !.width = width, !.height = height]
                                ELSE @]
            /\ UNCHANGED <<registryVars, heap, devices, handle, pc>>
     ELSE UseAfterFree("candid_renderer_resize", <<renderer, width, height>>, renderer,
                       <<"swapchain_resize">>,
                       {V(c) : c \in UNION {backend_entry_results(i, "swapchain_resize") :
                                               i \in Registered}})
  /\ UNCHANGED build

candid_renderer_resize(renderer, width, height) ==
  Forward("candid_renderer_resize", <<renderer, width, height>>, renderer,
          "swapchain_resize",
          [At(renderer) EXCEPT !.width = width, !.height = height])

candid_renderer_get_backend(renderer) ==
  Access("candid_renderer_get_backend", <<renderer>>, renderer,
         V(CANDID_BACKEND_AUTO), V(At(renderer).backend_type), At(renderer),
         {V(b) : b \in 0..(CANDID_BACKEND_COUNT - 1)})

\* out is NULL or the address of a Candid_DeviceLimits.
candid_renderer_get_limits(renderer, out) ==
  IF out = NULL
    THEN Ignore("candid_renderer_get_limits", <<renderer, out>>,
                V(CANDID_ERROR_INVALID_ARGUMENT))
    ELSE Forward("candid_renderer_get_limits", <<renderer, out>>, renderer,
                 "device_get_limits", At(renderer))

\* Plausible slip: the function is a stub that does not reach the backend,
\* as candid_renderer_get_builtin_shader is.
candid_renderer_create_buffer_stub(renderer) ==
  Ignore("candid_renderer_create_buffer", <<renderer>>,
         V(CANDID_ERROR_RESOURCE_CREATION))

candid_renderer_create_buffer(renderer) ==
  Forward("candid_renderer_create_buffer", <<renderer>>, renderer,
          "buffer_create", At(renderer))

candid_renderer_destroy_buffer(renderer) ==
  ForwardVoid("candid_renderer_destroy_buffer", <<renderer>>, renderer,
              "buffer_destroy")

candid_renderer_create_texture(renderer) ==
  Forward("candid_renderer_create_texture", <<renderer>>, renderer,
          "texture_create", At(renderer))

candid_renderer_destroy_texture(renderer) ==
  ForwardVoid("candid_renderer_destroy_texture", <<renderer>>, renderer,
              "texture_destroy")

candid_renderer_create_sampler(renderer) ==
  Forward("candid_renderer_create_sampler", <<renderer>>, renderer,
          "sampler_create", At(renderer))

candid_renderer_destroy_sampler(renderer) ==
  ForwardVoid("candid_renderer_destroy_sampler", <<renderer>>, renderer,
              "sampler_destroy")

candid_renderer_create_shader_module(renderer) ==
  Forward("candid_renderer_create_shader_module", <<renderer>>, renderer,
          "shader_module_create", At(renderer))

candid_renderer_destroy_shader_module(renderer) ==
  ForwardVoid("candid_renderer_destroy_shader_module", <<renderer>>, renderer,
              "shader_module_destroy")

candid_renderer_create_shader_program(renderer) ==
  Forward("candid_renderer_create_shader_program", <<renderer>>, renderer,
          "shader_program_create", At(renderer))

candid_renderer_destroy_shader_program(renderer) ==
  ForwardVoid("candid_renderer_destroy_shader_program", <<renderer>>, renderer,
              "shader_program_destroy")

candid_renderer_get_builtin_shader(renderer) ==
  Ignore("candid_renderer_get_builtin_shader", <<renderer>>,
         V(CANDID_ERROR_RESOURCE_CREATION))

candid_renderer_create_mesh(renderer) ==
  Forward("candid_renderer_create_mesh", <<renderer>>, renderer,
          "mesh_create", At(renderer))

candid_renderer_destroy_mesh(renderer) ==
  ForwardVoid("candid_renderer_destroy_mesh", <<renderer>>, renderer,
              "mesh_destroy")

candid_renderer_create_material(renderer) ==
  Forward("candid_renderer_create_material", <<renderer>>, renderer,
          "material_create", At(renderer))

candid_renderer_destroy_material(renderer) ==
  ForwardVoid("candid_renderer_destroy_material", <<renderer>>, renderer,
              "material_destroy")

(***************************************************************************)
(* renderer.c : frames, state setters, draws, camera, getters              *)
(***************************************************************************)
\* Plausible slip: the null check of begin_frame is dropped, as nothing in
\* the body reads the renderer.
begin_frame_result_unchecked(renderer) == CANDID_SUCCESS

\* candid_renderer_begin_frame: the renderer is tested, never read.
begin_frame_result(renderer) ==
  IF renderer = NULL THEN CANDID_ERROR_INVALID_ARGUMENT ELSE CANDID_SUCCESS

candid_renderer_begin_frame(renderer) ==
  Ignore("candid_renderer_begin_frame", <<renderer>>, V(begin_frame_result(renderer)))

\* Plausible slip: the counter is not advanced.
candid_renderer_end_frame_uncounted(renderer) ==
  Forward("candid_renderer_end_frame", <<renderer>>, renderer,
          "swapchain_present", At(renderer))

\* Plausible slip: end_frame advances the clock by one tick.
candid_renderer_end_frame_ticking(renderer) ==
  Forward("candid_renderer_end_frame", <<renderer>>, renderer,
          "swapchain_present",
          [At(renderer) EXCEPT !.frame_count = @ + 1, !.time = @ + 1, !.delta_time = 1])

candid_renderer_end_frame(renderer) ==
  Forward("candid_renderer_end_frame", <<renderer>>, renderer,
          "swapchain_present",
          [At(renderer) EXCEPT !.frame_count = @ + 1])

candid_renderer_set_clear_color(renderer, color) ==
  Access("candid_renderer_set_clear_color", <<renderer, color>>, renderer,
         Void, Void, [At(renderer) EXCEPT !.clear_color = color], {Void})

candid_renderer_set_viewport(renderer) ==
  Ignore("candid_renderer_set_viewport", <<renderer>>, Void)

candid_renderer_set_scissor(renderer) ==
  Ignore("candid_renderer_set_scissor", <<renderer>>, Void)

candid_renderer_draw_mesh(renderer) ==
  Ignore("candid_renderer_draw_mesh", <<renderer>>, Void)

candid_renderer_draw_submesh(renderer) ==
  Ignore("candid_renderer_draw_submesh", <<renderer>>, Void)

candid_renderer_draw_mesh_instanced(renderer) ==
  Ignore("candid_renderer_draw_mesh_instanced", <<renderer>>, Void)

\* Plausible slip: the comparison is strict, so an aspect ratio of exactly 0
\* is taken as the camera's own.
camera_aspect_strict(r, camera) ==
  IF camera.aspect_ratio[1] < 0 /\ r.width > 0 /\ r.height > 0
    THEN <<r.width, r.height>>
    ELSE camera.aspect_ratio

\* The aspect ratio set_camera uses; ratios are pairs <<numerator,
\* denominator>> with a positive denominator.
camera_aspect(r, camera) ==
  IF camera.aspect_ratio[1] <= 0 /\ r.width > 0 /\ r.height > 0
    THEN <<r.width, r.height>>
    ELSE camera.aspect_ratio

\* projection_matrix.m[0] = 1.0f / (aspect * tan_half_fov), kept as the
\* expression it is computed from.
perspective_m0(aspect, fov_y) ==
  [one_over |-> [aspect |-> aspect, tan_half |-> fov_y]]

\* camera is NullPtr or a Candid_Camera.  The matrices are kept symbolically:
\* the look-at matrix of the camera, and the perspective matrix built from
\* the aspect ratio and the camera's fov_y, near and far planes.
candid_renderer_set_camera(renderer, camera) ==
  IF camera = NullPtr
    THEN Ignore("candid_renderer_set_camera", <<renderer, camera>>, Void)
    ELSE Access("candid_renderer_set_camera", <<renderer, camera>>, renderer,
                Void, Void,
                [At(renderer) EXCEPT
                   !.view_matrix = [kind |-> "look_at", camera |-> camera.id],
                   !.projection_matrix =
                      [kind |-> "perspective", camera |-> camera.id,
                       aspect |-> camera_aspect(At(renderer), camera),
                       m0 |-> perspective_m0(camera_aspect(At(renderer), camera),
                                             camera.fov_y)]],
                {Void})

\* view and projection are NullPtr or matrices.
candid_renderer_set_view_projection(renderer, view, projection) ==
  Access("candid_renderer_set_view_projection", <<renderer, view, projection>>,
         renderer, Void, Void,
         [At(renderer) EXCEPT
            !.view_matrix = IF view # NullPtr THEN view ELSE @,
            !.projection_matrix = IF projection # NullPtr THEN projection ELSE @],
         {Void})

candid_renderer_get_time(renderer) ==
  Access("candid_renderer_get_time", <<renderer>>, renderer,
         V(0), V(At(renderer).time), At(renderer), {V(0), V(1)})

candid_renderer_get_delta_time(renderer) ==
  Access("candid_renderer_get_delta_time", <<renderer>>, renderer,
         V(0), V(At(renderer).delta_time), At(renderer), {V(0), V(1)})

candid_renderer_get_frame_count(renderer) ==
  Access("candid_renderer_get_frame_count", <<renderer>>, renderer,
         V(0), V(At(renderer).frame_count), At(renderer), {V(n) : n \in 0..MaxFrames})

(***************************************************************************)
(* mesh.c : 32-bit unsigned arithmetic                                     *)
(***************************************************************************)
\* A uint32_t is kept as two 16-bit halves, so that values up to 2^32 - 1
\* and their products are computed without leaving the checker's integers.
Limb == 65536

\* The uint32_t of value n, for n below 2^31.
U(n) == [hi |-> n \div Limb, lo |-> n % Limb]

\* x * y for two 16-bit halves, as a 32-bit value.
mul_limb(x, y) ==
  LET p == (x \div 256) * y
      q == (x % 256) * y
      l == (p % 256) * 256 + (q % Limb)
  IN [hi |-> p \div 256 + q \div Limb + l \div Limb, lo |-> l % Limb]

\* a * b in uint32_t: val is the 32 bits the C expression yields, wrapped
\* tells that the mathematical product does not fit in them.
mul_u32(a, b) ==
  LET ll == mul_limb(a.lo, b.lo)
      lh == mul_limb(a.lo, b.hi)
      hl == mul_limb(a.hi, b.lo)
      hh == mul_limb(a.hi, b.hi)
      s1 == ll.hi + lh.lo + hl.lo
      s2 == lh.hi + hl.hi + hh.lo + s1 \div Limb
  IN [val |-> [hi |-> s1 % Limb, lo |-> ll.lo],
      wrapped |-> s2 # 0 \/ hh.hi # 0]

\* a + b in uint32_t.
add_u32(a, b) ==
  LET l == a.lo + b.lo
      h == a.hi + b.hi + l \div Limb
  IN [val |-> [hi |-> h % Limb, lo |-> l % Limb], wrapped |-> h \div Limb # 0]

\* a < b for uint32_t values.
lt_u32(a, b) == a.hi < b.hi \/ (a.hi = b.hi /\ a.lo < b.lo)

\* (uint16_t)n for an int n.
u16(n) == n % Limb

(***************************************************************************)
(* mesh.c : generators                                                     *)
(***************************************************************************)
\* Candid_MeshData after `= {0}` or memset(data, 0, sizeof(*data)).
ZeroMeshData ==
  [vertices |-> NULL, vertex_count |-> U(0), vertex_stride |-> "zero",
   indices |-> NULL, index_count |-> U(0), index_format |-> "zero",
   layout |-> "zero", topology |-> "zero"]

\* A block of the allocator that is not handed out.
NoBuffer == [state |-> "unalloc", gen |-> "none", content |-> <<>>, overrun |-> FALSE]

\* Plausible slip: the blocks the descriptor already holds are handed out
\* again.
FreeBuffers_reusing_held ==
  {a \in BufferAddrs : buffers[a].state = "unalloc"}
    \cup ({mesh_data.vertices, mesh_data.indices} \ {NULL})

\* The blocks calloc / malloc can hand out.
FreeBuffers == {a \in BufferAddrs : buffers[a].state = "unalloc"}

\* The faces[6] table of candid_mesh_create_cube: the normal of each face
\* and the signs of +-h in its four corner positions.
cube_faces ==
  << [n |-> <<0, 0, 1>>,
      p |-> << <<0 - 1, 0 - 1, 1>>, <<1, 0 - 1, 1>>, <<1, 1, 1>>, <<0 - 1, 1, 1>> >>],
     [n |-> <<0, 0, 0 - 1>>,
      p |-> << <<1, 0 - 1, 0 - 1>>, <<0 - 1, 0 - 1, 0 - 1>>, <<0 - 1, 1, 0 - 1>>, <<1, 1, 0 - 1>> >>],
     [n |-> <<1, 0, 0>>,
      p |-> << <<1, 0 - 1, 1>>, <<1, 0 - 1, 0 - 1>>, <<1, 1, 0 - 1>>, <<1, 1, 1>> >>],
     [n |-> <<0 - 1, 0, 0>>,
      p |-> << <<0 - 1, 0 - 1, 0 - 1>>, <<0 - 1, 0 - 1, 1>>, <<0 - 1, 1, 1>>, <<0 - 1, 1, 0 - 1>> >>],
     [n |-> <<0, 1, 0>>,
      p |-> << <<0 - 1, 1, 1>>, <<1, 1, 1>>, <<1, 1, 0 - 1>>, <<0 - 1, 1, 0 - 1>> >>],
     [n |-> <<0, 0 - 1, 0>>,
      p |-> << <<0 - 1, 0 - 1, 0 - 1>>, <<1, 0 - 1, 0 - 1>>, <<1, 0 - 1, 1>>, <<0 - 1, 0 - 1, 1>> >>] >>

\* Plausible slip: the back face carries the normal of the front face.
cube_normal_front_for_back(face) ==
  IF face = 2 THEN cube_faces[1].n ELSE cube_faces[face].n

\* faces[face].nx, ny, nz (faces counted from 1).
cube_normal(face) == cube_faces[face].n

\* The 24 vertices of the cube.  Coordinates are kept in halves of the unit
\* of `size`, so that h = size * 0.5f is the integer `size`.
cube_vertices(size) ==
  [v \in 1..24 |->
     LET face == (v - 1) \div 4 + 1
         corner == ((v - 1) % 4) + 1
         s == cube_faces[face].p[corner]
     IN [position |-> <<s[1] * size, s[2] * size, s[3] * size>>,
         normal |-> cube_normal(face)]]

\* The 36 indices of the cube: two triangles per face.
cube_indices ==
  [i \in 1..36 |->
     LET face == (i - 1) \div 6
         k == ((i - 1) % 6) + 1
     IN u16(face * 4 + <<0, 1, 2, 0, 2, 3>>[k])]

cube_mesh(size) ==
  [invalid |-> FALSE, wrapped |-> FALSE, gen |-> "cube",
   vertex_count |-> U(24), index_count |-> U(36),
   vertices |-> cube_vertices(size), indices |-> cube_indices]

\* The six indices of the quad whose first corner is a, the next row being
\* `row` vertices further on.
quad_indices(a, row) ==
  LET b == u16(a + row)
      c == u16(a + 1)
      d == u16(b + 1)
  IN <<a, b, c, c, b, d>>

\* The index loop shared by the sphere and the plane: rows * cols quads over
\* a grid with `row` vertices per row.
grid_indices(rows, cols, row) ==
  [i \in 1..(rows * cols * 6) |->
     LET q == (i - 1) \div 6
         k == ((i - 1) % 6) + 1
     IN quad_indices(u16((q \div cols) * row + (q % cols)), row)[k]]

\* candid_mesh_create_sphere: the counts as the uint32_t expressions give
\* them, and the buffers as the loops fill them.  Positions and normals are
\* products of sines and cosines; they are kept as the (ring, seg) pair they
\* are computed from.
sphere_mesh(segments, rings) ==
  LET s1 == add_u32(segments, U(1))
      r1 == add_u32(rings, U(1))
      vc == mul_u32(s1.val, r1.val)
      sr == mul_u32(segments, rings)
      ic == mul_u32(sr.val, U(6))
      invalid == lt_u32(segments, U(3)) \/ lt_u32(rings, U(2))
      wrapped == s1.wrapped \/ r1.wrapped \/ vc.wrapped \/ sr.wrapped \/ ic.wrapped
      enum == ~invalid /\ ~wrapped
  IN [invalid |-> invalid, wrapped |-> wrapped, gen |-> "sphere",
      vertex_count |-> vc.val, index_count |-> ic.val,
      vertices |-> IF enum
                     THEN [v \in 1..((segments.lo + 1) * (rings.lo + 1)) |->
                             [position |-> <<"sphere", (v - 1) \div (segments.lo + 1),
                                             (v - 1) % (segments.lo + 1)>>,
                              normal |-> <<"sphere", (v - 1) \div (segments.lo + 1),
                                           (v - 1) % (segments.lo + 1)>>]]
                     ELSE <<>>,
      indices |-> IF enum THEN grid_indices(rings.lo, segments.lo, segments.lo + 1)
                          ELSE <<>>]

\* candid_mesh_create_plane.
plane_mesh(subdivisions_x, subdivisions_y) ==
  LET vx == add_u32(subdivisions_x, U(1))
      vy == add_u32(subdivisions_y, U(1))
      vc == mul_u32(vx.val, vy.val)
      xy == mul_u32(subdivisions_x, subdivisions_y)
      ic == mul_u32(xy.val, U(6))
      invalid == lt_u32(subdivisions_x, U(1)) \/ lt_u32(subdivisions_y, U(1))
      wrapped == vx.wrapped \/ vy.wrapped \/ vc.wrapped \/ xy.wrapped \/ ic.wrapped
      enum == ~invalid /\ ~wrapped
  IN [invalid |-> invalid, wrapped |-> wrapped, gen |-> "plane",
      vertex_count |-> vc.val, index_count |-> ic.val,
      vertices |-> IF enum
                     THEN [v \in 1..((subdivisions_x.lo + 1) * (subdivisions_y.lo + 1)) |->
                             [position |-> <<"plane", (v - 1) % (subdivisions_x.lo + 1),
                                             (v - 1) \div (subdivisions_x.lo + 1)>>,
                              normal |-> <<0, 1, 0>>]]
                     ELSE <<>>,
      indices |-> IF enum
                    THEN grid_indices(subdivisions_y.lo, subdivisions_x.lo,
                                      subdivisions_x.lo + 1)
                    ELSE <<>>]

\* The index loops of candid_mesh_create_cylinder: the side quads, the top
\* cap fan, the bottom cap fan.
cylinder_indices(segments) ==
  LET ring_verts == segments + 1
      top_center == 2 * ring_verts
      top_ring_start == top_center + 1
      bottom_center == top_ring_start + ring_verts
      bottom_ring_start == bottom_center + 1
  IN [i \in 1..(segments * 12) |->
        IF i <= segments * 6
          THEN LET s == (i - 1) \div 6
                   k == ((i - 1) % 6) + 1
               IN <<u16(s), u16(s + ring_verts), u16(s + 1),
                    u16(s + 1), u16(s + ring_verts), u16(s + ring_verts + 1)>>[k]
        ELSE IF i <= segments * 9
          THEN LET s == (i - segments * 6 - 1) \div 3
                   k == ((i - segments * 6 - 1) % 3) + 1
               IN <<u16(top_center), u16(top_ring_start + s + 1),
                    u16(top_ring_start + s)>>[k]
        ELSE LET s == (i - segments * 9 - 1) \div 3
                 k == ((i - segments * 9 - 1) % 3) + 1
             IN <<u16(bottom_center), u16(bottom_ring_start + s),
                  u16(bottom_ring_start + s + 1)>>[k]]

\* candid_mesh_create_cylinder.
cylinder_mesh(segments) ==
  LET rv == add_u32(segments, U(1))
      r4 == mul_u32(rv.val, U(4))
      vc == add_u32(r4.val, U(2))
      side == mul_u32(segments, U(6))
      c3 == mul_u32(segments, U(3))
      cap == mul_u32(c3.val, U(2))
      ic == add_u32(side.val, cap.val)
      invalid == lt_u32(segments, U(3))
      wrapped == rv.wrapped \/ r4.wrapped \/ vc.wrapped \/ side.wrapped
                   \/ c3.wrapped \/ cap.wrapped \/ ic.wrapped
      enum == ~invalid /\ ~wrapped
  IN [invalid |-> invalid, wrapped |-> wrapped, gen |-> "cylinder",
      vertex_count |-> vc.val, index_count |-> ic.val,
      vertices |-> IF enum
                     THEN [v \in 1..((segments.lo + 1) * 4 + 2) |->
                             [position |-> <<"cylinder", v - 1, segments.lo>>,
                              normal |-> <<"cylinder", v - 1, segments.lo>>]]
                     ELSE <<>>,
      indices |-> IF enum THEN cylinder_indices(segments.lo) ELSE <<>>]

\* Plausible slip: only the vertex buffer is released on the error path.
release_on_failure_vertices_only(bufs, v, i) ==
  [a \in BufferAddrs |-> IF a = v THEN NoBuffer ELSE bufs[a]]

\* free(vertices); free(indices); on the out-of-memory path (free(NULL) does
\* nothing).
release_on_failure(bufs, v, i) ==
  [a \in BufferAddrs |-> IF a \in {v, i} THEN NoBuffer ELSE bufs[a]]

\* The descriptor as a generator fills it on success.
fill_mesh_data(m, v, i) ==
  [vertices |-> v, vertex_count |-> m.vertex_count, vertex_stride |-> "sizeof(Candid_Vertex)",
   indices |-> i, index_count |-> m.index_count,
   index_format |-> "CANDID_INDEX_FORMAT_UINT16", layout |-> "standard",
   topology |-> "CANDID_PRIMITIVE_TRIANGLE_LIST"]

\* The shape shared by the four generators: argument check, calloc of the
\* vertices and malloc of the indices (either can fail), release of both on
\* failure, the fill loops, the stores through out.  When a count wrapped,
\* the loops run past the end of the buffers: the process faults, or goes on
\* and returns with the counts it computed.
Generate(op, arg, out, m) ==
  /\ pc = "running"
  /\ IF out = NULL \/ m.invalid
       THEN /\ last' = Call(op, arg, V(CANDID_ERROR_INVALID_ARGUMENT))
            /\ UNCHANGED <<mesh_data, buffers, generated, pc>>
       ELSE \E vok \in BOOLEAN, iok \in BOOLEAN :
              LET v == IF vok /\ FreeBuffers # {} THEN Least(FreeBuffers) ELSE NULL
                  rest == FreeBuffers \ {v}
                  i == IF iok /\ rest # {} THEN Least(rest) ELSE NULL
                  got == [a \in BufferAddrs |->
                            IF a = v THEN [state |-> "live", gen |-> m.gen,
                                           content |-> m.vertices,
                                           overrun |-> m.wrapped]
                            ELSE IF a = i THEN [state |-> "live", gen |-> m.gen,
                                                content |-> m.indices,
                                                overrun |-> m.wrapped]
                            ELSE buffers[a]]
                  allocs == <<IF v # NULL THEN "ok" ELSE "fail",
                              IF i # NULL THEN "ok" ELSE "fail">>
              IN IF v = NULL \/ i = NULL
                   THEN /\ buffers' = release_on_failure(got, v, i)
                        /\ last' = [Call(op, arg, V(CANDID_ERROR_OUT_OF_MEMORY))
                                      EXCEPT !.allocs = allocs,
                                             !.frees = SelectSeq(<<v, i>>,
                                                         LAMBDA p : p # NULL)]
                        /\ UNCHANGED <<mesh_data, generated, pc>>
                   ELSE \/ /\ buffers' = got
                           /\ mesh_data' = fill_mesh_data(m, v, i)
                           /\ generated' = IF generated < 2 THEN generated + 1 ELSE 2
                           /\ pc' = pc
                           /\ last' = [Call(op, arg, V(CANDID_SUCCESS))
                                         EXCEPT !.allocs = allocs, !.wrote_out = TRUE]
                        \/ /\ m.wrapped
                           /\ buffers' = got
                           /\ pc' = "crashed"
                           /\ last' = [Call(op, arg, Crash) EXCEPT !.allocs = allocs]
                           /\ UNCHANGED <<mesh_data, generated>>
  /\ UNCHANGED <<build, registryVars, facadeVars, appVars>>

\* size is a float, out is NULL or the address of the descriptor.
candid_mesh_create_cube(size, out) ==
  Generate("candid_mesh_create_cube", <<size, out>>, out, cube_mesh(size))

candid_mesh_create_sphere(segments, rings, out) ==
  Generate("candid_mesh_create_sphere", <<segments, rings, out>>, out,
           sphere_mesh(segments, rings))

candid_mesh_create_plane(subdivisions_x, subdivisions_y, out) ==
  Generate("candid_mesh_create_plane", <<subdivisions_x, subdivisions_y, out>>, out,
           plane_mesh(subdivisions_x, subdivisions_y))

candid_mesh_create_cylinder(segments, out) ==
  Generate("candid_mesh_create_cylinder", <<segments, out>>, out,
           cylinder_mesh(segments))

\* Plausible slip: the buffers are released but the descriptor keeps its
\* pointers and counts.
data_free_result_not_zeroed(d) == d

\* memset(data, 0, sizeof(*data))
data_free_result(d) == ZeroMeshData

\* candid_mesh_data_free: data is NULL or the address of the descriptor.
\* free() of a null pointer releases nothing.
candid_mesh_data_free(data) ==
  /\ pc = "running"
  /\ IF data = NULL
       THEN /\ last' = Call("candid_mesh_data_free", <<data>>, Void)
            /\ UNCHANGED <<mesh_data, buffers, pc>>
     ELSE IF \A p \in {mesh_data.vertices, mesh_data.indices} \ {NULL} :
               buffers[p].state = "live"
       THEN /\ buffers' = [a \in BufferAddrs |->
                             IF a \in {mesh_data.vertices, mesh_data.indices}
                               THEN NoBuffer ELSE buffers[a]]
            /\ mesh_data' = data_free_result(mesh_data)
            /\ last' = [Call("candid_mesh_data_free", <<data>>, Void)
                          EXCEPT !.frees = SelectSeq(<<mesh_data.vertices, mesh_data.indices>>,
                                                     LAMBDA p : p # NULL)]
            /\ pc' = pc
     ELSE \* free() of a block that is not allocated: the allocator aborts,
          \* or the call goes through.
          \/ /\ pc' = "crashed"
             /\ last' = Call("candid_mesh_data_free", <<data>>, Crash)
             /\ UNCHANGED <<mesh_data, buffers>>
          \/ /\ pc' = pc
             /\ buffers' = [a \in BufferAddrs |->
                              IF a \in {mesh_data.vertices, mesh_data.indices}
                                THEN NoBuffer ELSE buffers[a]]
             /\ mesh_data' = data_free_result(mesh_data)
             /\ last' = Call("candid_mesh_data_free", <<data>>, Void)
  /\ UNCHANGED <<build, registryVars, facadeVars, appVars, generated>>

\* The loop of candid_mesh_calculate_aabb from vertex i on.
RECURSIVE aabb_loop(_, _, _)
aabb_loop(verts, i, box) ==
  IF i > Len(verts)
    THEN box
    ELSE LET p == verts[i].position
         IN aabb_loop(verts, i + 1,
              [min |-> <<IF p[1] < box.min[1] THEN p[1] ELSE box.min[1],
                         IF p[2] < box.min[2] THEN p[2] ELSE box.min[2],
                         IF p[3] < box.min[3] THEN p[3] ELSE box.min[3]>>,
               max |-> <<IF p[1] > box.max[1] THEN p[1] ELSE box.max[1],
                         IF p[2] > box.max[2] THEN p[2] ELSE box.max[2],
                         IF p[3] > box.max[3] THEN p[3] ELSE box.max[3]>>])

\* The value of a count of the descriptor.
CountOf(c) == c.hi * Limb + c.lo

\* What a read past the end of a vertex buffer can yield as a position.
JunkPoints == {<<0, 0, 0>>, <<MaxCoord + 1, MaxCoord + 1, MaxCoord + 1>>}

\* Plausible slip: the scan is seeded with the origin instead of vertex 0.
aabb_seed_origin(verts) == [min |-> <<0, 0, 0>>, max |-> <<0, 0, 0>>]

\* out->min = verts[0].position; out->max = verts[0].position;
aabb_seed(verts) == [min |-> verts[1].position, max |-> verts[1].position]

\* candid_mesh_calculate_aabb: data is NULL or the address of the
\* descriptor, out is NULL or the address of a Candid_AABB; the box stored
\* through out is recorded in last.outw and the vertex slots read in
\* last.vaccess.  Vertex 0 is read whatever vertex_count is, then the
\* vertices 1 .. vertex_count - 1; a read past the end of the buffer faults
\* or yields whatever lies there.
candid_mesh_calculate_aabb(data, out) ==
  /\ pc = "running"
  /\ IF data = NULL \/ out = NULL
       THEN /\ last' = Call("candid_mesh_calculate_aabb", <<data, out>>,
                            V(CANDID_ERROR_INVALID_ARGUMENT))
            /\ pc' = pc
     ELSE IF mesh_data.vertices = NULL
       THEN /\ last' = Call("candid_mesh_calculate_aabb", <<data, out>>,
                            V(CANDID_ERROR_INVALID_ARGUMENT))
            /\ pc' = pc
     ELSE LET content == buffers[mesh_data.vertices].content
              count == CountOf(mesh_data.vertex_count)
              slots == {0} \cup {i \in 1..(count - 1) : TRUE}
          IN IF \A i \in slots : i < Len(content)
               THEN LET verts == SubSeq(content, 1, IF count = 0 THEN 1 ELSE count)
                    IN /\ last' = [Call("candid_mesh_calculate_aabb", <<data, out>>,
                                        V(CANDID_SUCCESS))
                                     EXCEPT !.outw = <<aabb_loop(verts, 2, aabb_seed(verts))>>,
                                            !.vaccess = slots]
                       /\ pc' = pc
               ELSE \/ /\ pc' = "crashed"
                       /\ last' = [Call("candid_mesh_calculate_aabb", <<data, out>>, Crash)
                                     EXCEPT !.vaccess = slots]
                    \/ \E junk \in JunkPoints :
                         LET verts == [i \in 1..(IF count = 0 THEN 1 ELSE count) |->
                                         IF i <= Len(content) THEN content[i]
                                                              ELSE [position |-> junk]]
                         IN /\ last' = [Call("candid_mesh_calculate_aabb", <<data, out>>,
                                             V(CANDID_SUCCESS))
                                          EXCEPT !.outw = <<aabb_loop(verts, 2, aabb_seed(verts))>>,
                                                 !.vaccess = slots]
                            /\ pc' = pc
  /\ UNCHANGED <<build, registryVars, facadeVars, appVars, mesh_data, buffers, generated>>

(***************************************************************************)
(* mesh.c : normals and tangents                                           *)
(***************************************************************************)
\* Vectors with integer components are kept as tuples.  A float vector in
\* general is kept as [num, den2], standing for num / sqrt(den2): what
\* dividing an integer vector by its length gives.
Dot(a, b) == a[1] * b[1] + a[2] * b[2] + a[3] * b[3]
Cross(a, b) ==
  <<a[2] * b[3] - a[3] * b[2], a[3] * b[1] - a[1] * b[3], a[1] * b[2] - a[2] * b[1]>>
Sub(a, b) == <<a[1] - b[1], a[2] - b[2], a[3] - b[3]>>
Add3(a, b) == <<a[1] + b[1], a[2] + b[2], a[3] + b[3]>>
Times(a, k) == <<a[1] * k, a[2] * k, a[3] * k>>
Abs(x) == IF x < 0 THEN 0 - x ELSE x

RECURSIVE Gcd(_, _)
Gcd(a, b) == IF b = 0 THEN a ELSE Gcd(b, a % b)

\* a / k for a non-zero k that divides a.
Quot(a, k) == IF a < 0 THEN 0 - ((0 - a) \div k) ELSE a \div k

ZeroVec == [num |-> <<0, 0, 0>>, den2 |-> 1]

\* len = sqrtf(x*x + y*y + z*z); if (len > 1e-6f) the vector is divided by
\* len, else it is left as it is.  An integer vector is shorter than 1e-6
\* only when it is zero.  The quotient is kept in lowest terms, so that
\* equal directions are equal values.
normalize(v) ==
  IF Dot(v, v) = 0 THEN ZeroVec
  ELSE LET g == Gcd(Gcd(Abs(v[1]), Abs(v[2])), Abs(v[3]))
           u == <<Quot(v[1], g), Quot(v[2], g), Quot(v[3], g)>>
       IN [num |-> u, den2 |-> Dot(u, u)]

\* data->index_format == CANDID_INDEX_FORMAT_UINT16 (the enumeration's 0).
IsUint16(data) == data.index_format \in {"CANDID_INDEX_FORMAT_UINT16", "zero"}

\* idx16[p] or idx32[p]: the element when p is inside the buffer, else
\* whatever lies past its end.
index_at(data, inds, p, junk) ==
  IF p < Len(inds)
    THEN IF IsUint16(data) THEN u16(inds[p + 1]) ELSE inds[p + 1]
    ELSE junk

\* verts[k].position, past the end of the buffer whatever lies there.
position_at(verts, k, junkp) ==
  IF k < Len(verts) THEN verts[k + 1].position ELSE junkp

\* verts[k].texcoord0.
texcoord_at(verts, k) ==
  IF k < Len(verts) THEN verts[k + 1].texcoord0 ELSE <<0, 0>>

\* acc[k] += n; a store past the end of the array lands outside it.
accumulate(acc, k, n) ==
  IF k < Len(acc) THEN [acc EXCEPT ![k + 1] = Add3(@, n)] ELSE acc

\* The index positions the triangle loop reads: i, i + 1, i + 2 for
\* i = 0, 3, 6, ... below index_count.
positions_read(index_count) ==
  UNION {{i, i + 1, i + 2} : i \in {j \in 0..(index_count - 1) : j % 3 = 0}}

\* The vertex slots the triangle loop accesses.
slots_accessed(data, inds, index_count, junk) ==
  {index_at(data, inds, p, junk) : p \in positions_read(index_count)}

\* Plausible slip: the normals are not reset before the accumulation.
normals_start_kept(verts) == [k \in 1..Len(verts) |-> verts[k].normal.num]

\* verts[i].normal = (Candid_Vec3){0, 0, 0} for every vertex.
normals_start(verts) == [k \in 1..Len(verts) |-> <<0, 0, 0>>]

\* The accumulation loop of candid_mesh_calculate_normals from index
\* position i on: the cross product of the two edges of each triangle is
\* added to the normal of each of its three vertices.
RECURSIVE normals_loop(_, _, _, _, _, _, _, _)
normals_loop(data, verts, inds, index_count, i, acc, junk, junkp) ==
  IF i >= index_count
    THEN acc
    ELSE LET i0 == index_at(data, inds, i, junk)
             i1 == index_at(data, inds, i + 1, junk)
             i2 == index_at(data, inds, i + 2, junk)
             p0 == position_at(verts, i0, junkp)
             e1 == Sub(position_at(verts, i1, junkp), p0)
             e2 == Sub(position_at(verts, i2, junkp), p0)
             n == Cross(e1, e2)
         IN normals_loop(data, verts, inds, index_count, i + 3,
                         accumulate(accumulate(accumulate(acc, i0, n), i1, n), i2, n),
                         junk, junkp)

\* What a read past the end of an index buffer can yield.
JunkIndices == {0, MaxVerts + 1}

\* candid_mesh_calculate_normals: data is NULL or the address of the
\* descriptor.  The index positions read and the vertex slots accessed are
\* recorded in last.iread and last.vaccess; when one of them lies outside
\* its buffer the process faults, or goes on with whatever it read.
candid_mesh_calculate_normals(data) ==
  /\ pc = "running"
  /\ IF data = NULL \/ mesh_data.vertices = NULL \/ mesh_data.indices = NULL
       THEN /\ last' = Call("candid_mesh_calculate_normals", <<data>>,
                            V(CANDID_ERROR_INVALID_ARGUMENT))
            /\ UNCHANGED <<buffers, pc>>
       ELSE LET verts == buffers[mesh_data.vertices].content
                inds == buffers[mesh_data.indices].content
                index_count == CountOf(mesh_data.index_count)
                again == last.op = "candid_mesh_calculate_normals"
                           /\ last.ret = V(CANDID_SUCCESS)
            IN \E junk \in JunkIndices, junkp \in JunkPoints :
                 LET iread == positions_read(index_count)
                     vaccess == slots_accessed(mesh_data, inds, index_count, junk)
                     inside == /\ \A p \in iread : p < Len(inds)
                               /\ \A k \in vaccess : k < Len(verts)
                     acc == normals_loop(mesh_data, verts, inds, index_count, 0,
                                         normals_start(verts), junk, junkp)
                     done == [k \in 1..Len(verts) |->
                                [verts[k] EXCEPT !.normal = normalize(acc[k])]]
                     call == [Call("candid_mesh_calculate_normals", <<data>>,
                                   V(CANDID_SUCCESS))
                                EXCEPT !.iread = iread, !.vaccess = vaccess,
                                       !.again = again]
                 IN \/ /\ buffers' = [buffers EXCEPT
                                        ![mesh_data.vertices].content = done,
                                        ![mesh_data.vertices].overrun = @ \/ ~inside]
                       /\ last' = call
                       /\ pc' = pc
                    \/ /\ ~inside
                       /\ pc' = "crashed"
                       /\ last' = [call EXCEPT !.ret = Crash]
                       /\ UNCHANGED buffers
  /\ UNCHANGED <<build, registryVars, facadeVars, appVars, mesh_data, generated>>

\* v * (1.0f / r) for an r that divides the components of v; with texture
\* coordinates on the corners of the unit square r is -1 or 1.
over(v, r) ==
  IF r > 0 THEN <<Quot(v[1], r), Quot(v[2], r), Quot(v[3], r)>>
  ELSE <<0 - Quot(v[1], 0 - r), 0 - Quot(v[2], 0 - r), 0 - Quot(v[3], 0 - r)>>

\* The accumulation loop of candid_mesh_calculate_tangents from index
\* position i on; acc is [tan1, tan2].
RECURSIVE tangents_loop(_, _, _, _, _, _, _, _)
tangents_loop(data, verts, inds, index_count, i, acc, junk, junkp) ==
  IF i >= index_count
    THEN acc
    ELSE LET i0 == index_at(data, inds, i, junk)
             i1 == index_at(data, inds, i + 1, junk)
             i2 == index_at(data, inds, i + 2, junk)
             p0 == position_at(verts, i0, junkp)
             uv0 == texcoord_at(verts, i0)
             uv1 == texcoord_at(verts, i1)
             uv2 == texcoord_at(verts, i2)
             e1 == Sub(position_at(verts, i1, junkp), p0)
             e2 == Sub(position_at(verts, i2, junkp), p0)
             s1 == uv1[1] - uv0[1]
             t1 == uv1[2] - uv0[2]
             s2 == uv2[1] - uv0[1]
             t2 == uv2[2] - uv0[2]
             det == s1 * t2 - s2 * t1
             r == IF det = 0 THEN 1 ELSE det
             sdir == over(Sub(Times(e1, t2), Times(e2, t1)), r)
             tdir == over(Sub(Times(e2, s1), Times(e1, s2)), r)
             add(a, d) == accumulate(accumulate(accumulate(a, i0, d), i1, d), i2, d)
         IN tangents_loop(data, verts, inds, index_count, i + 3,
                          [tan1 |-> add(acc.tan1, sdir), tan2 |-> add(acc.tan2, tdir)],
                          junk, junkp)

\* Plausible slip: the handedness test has its sign the wrong way round.
handedness_flipped(n, t, b) == IF Dot(Cross(n.num, t), b) > 0 THEN 0 - 1 ELSE 1

\* w = (dot(cross(n, t), tan2[i]) < 0.0f) ? -1.0f : 1.0f, for the normal
\* n.num / sqrt(n.den2).
handedness(n, t, b) == IF Dot(Cross(n.num, t), b) < 0 THEN 0 - 1 ELSE 1

\* tangent = t - n * dot(n, t), divided by its length when that is above
\* 1e-6: for n = N / sqrt(d) this is (d t - N (N . t)) / d, which is either
\* zero or at least 1/d long.
gram_schmidt(n, t) ==
  normalize(Sub(Times(t, n.den2), Times(n.num, Dot(n.num, t))))

\* candid_mesh_calculate_tangents: data is NULL or the address of the
\* descriptor; either calloc of an accumulator array can fail.
candid_mesh_calculate_tangents(data) ==
  /\ pc = "running"
  /\ IF data = NULL \/ mesh_data.vertices = NULL \/ mesh_data.indices = NULL
       THEN /\ last' = Call("candid_mesh_calculate_tangents", <<data>>,
                            V(CANDID_ERROR_INVALID_ARGUMENT))
            /\ UNCHANGED <<buffers, pc>>
       ELSE \E ok1 \in BOOLEAN, ok2 \in BOOLEAN :
              LET allocs == <<IF ok1 THEN "ok" ELSE "fail", IF ok2 THEN "ok" ELSE "fail">>
              IN IF ~ok1 \/ ~ok2
                   THEN /\ last' = [Call("candid_mesh_calculate_tangents", <<data>>,
                                         V(CANDID_ERROR_OUT_OF_MEMORY))
                                      EXCEPT !.allocs = allocs]
                        /\ UNCHANGED <<buffers, pc>>
                   ELSE LET verts == buffers[mesh_data.vertices].content
                            inds == buffers[mesh_data.indices].content
                            index_count == CountOf(mesh_data.index_count)
                        IN \E junk \in JunkIndices, junkp \in JunkPoints :
                             LET iread == positions_read(index_count)
                                 vaccess == slots_accessed(mesh_data, inds, index_count, junk)
                                 inside == /\ \A p \in iread : p < Len(inds)
                                           /\ \A k \in vaccess : k < Len(verts)
                                 zero == [k \in 1..Len(verts) |-> <<0, 0, 0>>]
                                 acc == tangents_loop(mesh_data, verts, inds, index_count, 0,
                                                      [tan1 |-> zero, tan2 |-> zero],
                                                      junk, junkp)
                                 done == [k \in 1..Len(verts) |->
                                            [verts[k] EXCEPT !.tangent =
                                               [xyz |-> gram_schmidt(verts[k].normal,
                                                                     acc.tan1[k]),
                                                w |-> handedness(verts[k].normal,
                                                                 acc.tan1[k], acc.tan2[k])]]]
                                 call == [Call("candid_mesh_calculate_tangents", <<data>>,
                                               V(CANDID_SUCCESS))
                                            EXCEPT !.iread = iread, !.vaccess = vaccess,
                                                   !.allocs = allocs]
                             IN \/ /\ buffers' = [buffers EXCEPT
                                                    ![mesh_data.vertices].content = done,
                                                    ![mesh_data.vertices].overrun = @ \/ ~inside]
                                   /\ last' = call
                                   /\ pc' = pc
                                \/ /\ ~inside
                                   /\ pc' = "crashed"
                                   /\ last' = [call EXCEPT !.ret = Crash]
                                   /\ UNCHANGED buffers
  /\ UNCHANGED <<build, registryVars, facadeVars, appVars, mesh_data, generated>>

(***************************************************************************)
(* The application: the inputs each specification draws                    *)
(***************************************************************************)
\* The pointer refers to a renderer that was created and not yet destroyed.
Live(r) == IF r = NULL THEN FALSE ELSE heap[r] = "live"

\* The renderer pointers the application can pass: null or its handle.
Handles == {NULL, handle}

Configs == [backend : BackendArgs, width : {MaxDim}, height : Dims]

Colors == {[kind |-> "rgba", id |-> 1]}
Matrices == {[kind |-> "given", id |-> 1]}
Cameras == {[id |-> 1, aspect_ratio |-> <<0, 1>>, fov_y |-> 60]}

LifecycleCall ==
  /\ \/ /\ ~Live(handle)
        /\ \E config \in Configs \cup {NullPtr}, out \in {NULL, 1} :
             candid_renderer_create(config, out)
     \/ \E r \in Handles : candid_renderer_destroy(r)
  /\ UNCHANGED <<appVars, meshVars>>

ForwardCall ==
  /\ \E r \in Handles :
       \/ \E w \in {MaxDim}, h \in Dims : candid_renderer_resize(r, w, h)
       \/ candid_renderer_get_backend(r)
       \/ \E out \in {NULL, 1} : candid_renderer_get_limits(r, out)
       \/ candid_renderer_create_buffer(r)
       \/ candid_renderer_destroy_buffer(r)
       \/ candid_renderer_create_texture(r)
       \/ candid_renderer_destroy_texture(r)
       \/ candid_renderer_create_sampler(r)
       \/ candid_renderer_destroy_sampler(r)
       \/ candid_renderer_create_shader_module(r)
       \/ candid_renderer_destroy_shader_module(r)
       \/ candid_renderer_create_shader_program(r)
       \/ candid_renderer_destroy_shader_program(r)
       \/ candid_renderer_get_builtin_shader(r)
       \/ candid_renderer_create_mesh(r)
       \/ candid_renderer_destroy_mesh(r)
       \/ candid_renderer_create_material(r)
       \/ candid_renderer_destroy_material(r)
  /\ UNCHANGED <<appVars, meshVars>>

FrameCall ==
  /\ \E r \in Handles :
       \/ candid_renderer_begin_frame(r)
       \/ /\ At(r).frame_count < MaxFrames
          /\ candid_renderer_end_frame(r)
       \/ \E color \in Colors : candid_renderer_set_clear_color(r, color)
       \/ candid_renderer_set_viewport(r)
       \/ candid_renderer_set_scissor(r)
       \/ candid_renderer_draw_mesh(r)
       \/ candid_renderer_draw_submesh(r)
       \/ candid_renderer_draw_mesh_instanced(r)
       \/ \E camera \in Cameras \cup {NullPtr} : candid_renderer_set_camera(r, camera)
       \/ \E m \in Matrices :
            \E vp \in {<<m, m>>, <<NullPtr, NullPtr>>} :
              candid_renderer_set_view_projection(r, vp[1], vp[2])
       \/ candid_renderer_get_time(r)
       \/ candid_renderer_get_delta_time(r)
       \/ candid_renderer_get_frame_count(r)
  /\ UNCHANGED <<appVars, meshVars>>

(***************************************************************************)
(* Initial state: any build; statics zero-initialized; nothing allocated.  *)
(***************************************************************************)
InitProgram ==
  /\ build \in SUBSET Macros
  /\ s_backends = [i \in Slots |-> NULL]
  /\ s_initialized = FALSE
  /\ heap = [a \in RendererAddrs |-> "unalloc"]
  /\ obj = [a \in RendererAddrs |-> ZeroRenderer]
  /\ devices = [d \in DeviceAddrs |-> "unalloc"]
  /\ handle = NULL
  /\ pc = "running"
  /\ last = NoCall
  /\ frames = NoFrames
  /\ generated = 0
  /\ threads = [t \in Threads |-> NoThread]

Init ==
  /\ InitProgram
  /\ mesh_data = ZeroMeshData
  /\ buffers = [a \in BufferAddrs |-> NoBuffer]

\* The application driving the renderer facade.
Next ==
  \/ LifecycleCall
  \/ ForwardCall
  \/ FrameCall

Spec == Init /\ [][Next]_vars

\* The application calling the registry directly.
SpecRegistry == Init /\ [][RegistryCall]_vars

(***************************************************************************)
(* The frame loop of the application (main.c): one renderer, frames begun  *)
(* and ended, draws in between.                                            *)
(***************************************************************************)
\* What the application knows of its frame loop after a call: a successful
\* create starts afresh, a begin_frame that returned Success opens a frame,
\* an end_frame closes one (if any is open) and counts.
Track(fr, call) ==
  IF call.op = "candid_renderer_create" /\ call.ret = V(CANDID_SUCCESS)
    THEN NoFrames
  ELSE IF call.op = "candid_renderer_begin_frame" /\ call.ret = V(CANDID_SUCCESS)
    THEN [fr EXCEPT !.open = @ + 1]
  ELSE IF call.op = "candid_renderer_end_frame"
    THEN [open |-> IF fr.open > 0 THEN fr.open - 1 ELSE 0, ended |-> fr.ended + 1]
  ELSE fr

LoopConfigs ==
  [backend : {CANDID_BACKEND_AUTO, CANDID_BACKEND_METAL, CANDID_BACKEND_VULKAN},
   width : {MaxDim}, height : {MaxDim}]

FrameLoopCall ==
  /\ \/ /\ ~Live(handle)
        /\ \E config \in LoopConfigs : candid_renderer_create(config, 1)
     \/ /\ Live(handle)
        /\ \/ candid_renderer_destroy(handle)
           \/ /\ frames.open < MaxLoop
              /\ candid_renderer_begin_frame(handle)
           \/ /\ frames.ended < MaxLoop
              /\ candid_renderer_end_frame(handle)
           \/ candid_renderer_draw_mesh(handle)
           \/ candid_renderer_draw_submesh(handle)
           \/ candid_renderer_draw_mesh_instanced(handle)
           \/ candid_renderer_resize(handle, MaxDim, MaxDim)
           \/ candid_renderer_get_frame_count(handle)
  /\ frames' = Track(frames, last')
  /\ UNCHANGED <<meshVars, threads>>

SpecFrames == Init /\ [][FrameLoopCall]_vars

(***************************************************************************)
(* The camera scenario: a renderer of some size, resized at will, and      *)
(* cameras with and without an aspect ratio of their own.                  *)
(***************************************************************************)
CameraDims == 0..MaxCameraDim

CameraConfigs ==
  [backend : {CANDID_BACKEND_AUTO}, width : CameraDims, height : CameraDims]

\* aspect_ratio negative, zero and positive.
ScenarioCameras ==
  {[id |-> 1, aspect_ratio |-> a, fov_y |-> 60] : a \in {<<0 - 1, 1>>, <<0, 1>>, <<2, 1>>}}

CameraCall ==
  /\ \/ /\ ~Live(handle)
        /\ \E config \in CameraConfigs : candid_renderer_create(config, 1)
     \/ /\ Live(handle)
        /\ \/ \E w \in CameraDims, h \in CameraDims : candid_renderer_resize(handle, w, h)
           \/ \E camera \in ScenarioCameras : candid_renderer_set_camera(handle, camera)
  /\ UNCHANGED <<appVars, meshVars>>

SpecCamera == Init /\ [][CameraCall]_vars

(***************************************************************************)
(* Mesh generation: one descriptor, generated, measured and freed.         *)
(***************************************************************************)
\* Cube sizes: negative, zero and positive.
Sizes == (0 - 1)..MaxSize

\* Small segment, ring and subdivision counts, from one below the minimum
\* the generators accept.
SegmentCounts == {U(n) : n \in 2..MaxSegments}
RingCounts == {U(n) : n \in 1..MaxSegments}
Subdivisions == {U(n) : n \in 0..MaxSubdivisions}

\* Counts near the top of what uint32_t products can hold.
TwoTo14 == U(16384)
TwoTo15 == U(32768)
TwoTo16Less1 == [hi |-> 0, lo |-> 65535]
TwoTo16 == [hi |-> 1, lo |-> 0]
TwoTo30Less1 == [hi |-> 16383, lo |-> 65535]

SphereArgs ==
  (SegmentCounts \X RingCounts) \cup {<<TwoTo16Less1, TwoTo16>>, <<TwoTo16Less1, TwoTo16Less1>>}
PlaneArgs ==
  (Subdivisions \X Subdivisions) \cup {<<TwoTo16, TwoTo14>>}
CylinderArgs == SegmentCounts \cup {TwoTo30Less1}

\* The descriptor holds vertices whose positions are numbers.
HasCubeVertices ==
  IF mesh_data.vertices = NULL THEN TRUE
  ELSE buffers[mesh_data.vertices].gen = "cube"

MeshCall ==
  \/ \E out \in {NULL, 1} :
       \/ \E size \in Sizes : candid_mesh_create_cube(size, out)
       \/ \E a \in SphereArgs : candid_mesh_create_sphere(a[1], a[2], out)
       \/ \E a \in PlaneArgs : candid_mesh_create_plane(a[1], a[2], out)
       \/ \E segments \in CylinderArgs : candid_mesh_create_cylinder(segments, out)
  \/ \E data \in {NULL, 1} : candid_mesh_data_free(data)
  \/ /\ HasCubeVertices
     /\ \E data \in {NULL, 1}, out \in {NULL, 1} : candid_mesh_calculate_aabb(data, out)

\* A block of the allocator that another part of the program holds.
HeldElsewhere == [state |-> "other", gen |-> "none", content |-> <<>>, overrun |-> FALSE]

\* mesh.c is compiled the same way in every build.  The allocator has room
\* for the two buffers of one mesh.
InitMesh ==
  /\ InitProgram
  /\ build = {}
  /\ mesh_data = ZeroMeshData
  /\ buffers = [a \in BufferAddrs |-> IF a <= 2 THEN NoBuffer ELSE HeldElsewhere]

SpecMesh == InitMesh /\ [][MeshCall]_vars

(***************************************************************************)
(* A descriptor the application filled in itself, handed to                *)
(* candid_mesh_calculate_aabb.                                             *)
(***************************************************************************)
\* Positions on both sides of the origin.
AabbPoints ==
  {<<0, 0, 0>>, <<MaxCoord, 0, 0>>, <<0, 0 - MaxCoord, 0>>,
   <<0 - MaxCoord, MaxCoord, MaxCoord>>}

\* The vertex arrays of up to MaxVerts vertices.
AabbVertexArrays ==
  UNION {[1..n -> {[position |-> p] : p \in AabbPoints}] : n \in 0..MaxVerts}

\* A block the application allocated and filled.
Filled(content) ==
  [state |-> "live", gen |-> "application", content |-> content, overrun |-> FALSE]

\* The descriptor is zero, or refers to an array of n vertices (n = 0: an
\* allocation of no bytes) with vertex_count n or, the array not yet
\* counted, 0.
InitAabb ==
  /\ InitProgram
  /\ build = {}
  /\ \/ buffers = [a \in BufferAddrs |-> NoBuffer]
     \/ \E verts \in AabbVertexArrays :
          buffers = [a \in BufferAddrs |-> IF a = 1 THEN Filled(verts) ELSE NoBuffer]
  /\ \/ /\ buffers[1].state = "unalloc"
        /\ mesh_data = ZeroMeshData
     \/ /\ buffers[1].state = "live"
        /\ \E n \in {0, Len(buffers[1].content)} :
             mesh_data = [ZeroMeshData EXCEPT !.vertices = 1, !.vertex_count = U(n),
                                              !.vertex_stride = "sizeof(Candid_Vertex)"]

AabbCall ==
  \E data \in {NULL, 1}, out \in {NULL, 1} : candid_mesh_calculate_aabb(data, out)

SpecAabb == InitAabb /\ [][AabbCall]_vars

(***************************************************************************)
(* A triangle the application filled in itself, handed to                  *)
(* candid_mesh_calculate_normals and candid_mesh_calculate_tangents.       *)
(***************************************************************************)
\* The three corners: the origin, a point of the x axis, and a grid point
\* above the one or the other.
SurfacePositions ==
  {<<<<0, 0, 0>>, <<MaxCoord, 0, 0>>, <<x, y, z>>>> :
     x \in {0, MaxCoord}, y \in 0..MaxCoord, z \in 0..MaxCoord}

\* Texture coordinates on the corners of the unit square: one orientation,
\* the other, and all three corners on one point.
SurfaceTexcoords ==
  {<<<<0, 0>>, <<1, 0>>, <<0, 1>>>>, <<<<0, 0>>, <<0, 1>>, <<1, 0>>>>,
   <<<<0, 0>>, <<0, 0>>, <<0, 0>>>>}

\* The normal every vertex holds beforehand: none, a unit vector across
\* the x axis, a unit vector along it, a vector of length 2.
SurfaceNormals ==
  {ZeroVec, [num |-> <<0, 0, 1>>, den2 |-> 1], [num |-> <<1, 0, 0>>, den2 |-> 1],
   [num |-> <<0, 0, 2>>, den2 |-> 1]}

\* Index arrays: one triangle, a count that is not a multiple of 3, an
\* index past the last vertex; for 32-bit indices also one above 2^16.
SurfaceIndices ==
  {<<"CANDID_INDEX_FORMAT_UINT16", inds>> :
     inds \in {<<0, 1, 2>>, <<0, 1, 2, 0>>, <<0, 1, 3>>}}
  \cup {<<"CANDID_INDEX_FORMAT_UINT32", inds>> :
          inds \in {<<0, 1, 2>>, <<2, 1, 0>>, <<0, 1, Limb + 2>>}}

InitSurface ==
  /\ InitProgram
  /\ build = {}
  /\ \E ps \in SurfacePositions, uvs \in SurfaceTexcoords, n \in SurfaceNormals,
        ix \in SurfaceIndices :
       /\ buffers =
            [a \in BufferAddrs |->
               IF a = 1
                 THEN Filled([k \in 1..3 |->
                                [position |-> ps[k], normal |-> n,
                                 tangent |-> [xyz |-> ZeroVec, w |-> 0],
                                 texcoord0 |-> uvs[k]]])
               ELSE IF a = 2 THEN Filled(ix[2])
               ELSE NoBuffer]
       /\ mesh_data =
            [ZeroMeshData EXCEPT !.vertices = 1, !.vertex_count = U(3),
                                 !.vertex_stride = "sizeof(Candid_Vertex)",
                                 !.indices = 2, !.index_count = U(Len(ix[2])),
                                 !.index_format = ix[1], !.layout = "standard",
                                 !.topology = "CANDID_PRIMITIVE_TRIANGLE_LIST"]

SurfaceCall ==
  \E data \in {NULL, 1} :
    \/ candid_mesh_calculate_normals(data)
    \/ candid_mesh_calculate_tangents(data)

SpecSurface == InitSurface /\ [][SurfaceCall]_vars

(***************************************************************************)
(* The indexed generators on the smallest meshes they accept, on a strip   *)
(* of 2^15 quads (2 * (2^15 + 1) = 65538 vertices) and on counts whose     *)
(* products pass 2^32.                                                     *)
(***************************************************************************)
IndexedSphereArgs == {<<U(3), U(2)>>, <<TwoTo16Less1, TwoTo16>>}
IndexedPlaneArgs == {<<U(1), U(1)>>, <<U(1), TwoTo15>>}
IndexedCylinderArgs == {U(3), TwoTo30Less1}

IndexedCall ==
  \/ \E a \in IndexedSphereArgs : candid_mesh_create_sphere(a[1], a[2], 1)
  \/ \E a \in IndexedPlaneArgs : candid_mesh_create_plane(a[1], a[2], 1)
  \/ \E segments \in IndexedCylinderArgs : candid_mesh_create_cylinder(segments, 1)
  \/ \E data \in {NULL, 1} : candid_mesh_data_free(data)

SpecIndexed == InitMesh /\ [][IndexedCall]_vars

(***************************************************************************)
(* One descriptor handed to generators again and again, with and without   *)
(* a free in between; every block of the allocator is available.           *)
(***************************************************************************)
RegenerateCall ==
  \/ \E size \in Sizes : candid_mesh_create_cube(size, 1)
  \/ \E segments \in SegmentCounts : candid_mesh_create_cylinder(segments, 1)
  \/ \E data \in {NULL, 1} : candid_mesh_data_free(data)

InitRegenerate == Init /\ build = {}

SpecRegenerate == InitRegenerate /\ [][RegenerateCall]_vars

(***************************************************************************)
(* Two threads, each making its first registry call,                       *)
(* candid_backend_get(backend), while the other may be in the middle of    *)
(* its own.  A step is one read or one store of s_initialized or of a slot *)
(* of s_backends; the steps of the two threads interleave in any order and *)
(* every read sees the latest store.                                       *)
(***************************************************************************)
\* The statements of init_backends after its guard, in program order.
init_backends_steps_flag_first == <<"set_flag", "store_metal", "store_vulkan">>
init_backends_steps == <<"store_metal", "store_vulkan", "set_flag">>

\* The slot reads of candid_backend_get_preferred, in program order.
get_preferred_steps == <<"pref_metal", "pref_vulkan", "pref_d3d12">>

\* The statement is compiled in this build.
Compiled(step) ==
  CASE step \in {"store_metal", "pref_metal"} -> "__APPLE__" \in build
    [] step \in {"store_vulkan", "pref_vulkan"} -> "CANDID_VULKAN_SUPPORT" \in build
    [] step = "pref_d3d12" -> "_WIN32" \in build
    [] OTHER -> TRUE

\* The first compiled statement of steps at position k or later, "return"
\* when there is none.
RECURSIVE FirstCompiled(_, _)
FirstCompiled(steps, k) ==
  IF k > Len(steps) THEN "return"
  ELSE IF Compiled(steps[k]) THEN steps[k]
  ELSE FirstCompiled(steps, k + 1)

\* The compiled statement that follows step in steps.
Following(steps, step) ==
  FirstCompiled(steps, (CHOOSE k \in 1..Len(steps) : steps[k] = step) + 1)

\* The thread returns from candid_backend_get_preferred with backend
\* `found`: candid_backend_get goes on to its range check and slot read.
preferred_returns(th, found) == [th EXCEPT !.at = "get_lookup", !.backend = found]

\* The thread goes on to statement `to` of candid_backend_get_preferred.
preferred_goes_on(th, to) ==
  IF to = "return" THEN preferred_returns(th, CANDID_BACKEND_AUTO)
  ELSE [th EXCEPT !.at = to]

\* The thread returns from init_backends to its caller: candid_backend_get
\* calls candid_backend_get_preferred for AUTO (which calls init_backends
\* again) and else looks the slot up; candid_backend_get_preferred starts
\* reading slots.
init_returns(th) ==
  IF th.in = "candid_backend_get"
    THEN IF th.backend = CANDID_BACKEND_AUTO
           THEN [th EXCEPT !.at = "init_check", !.in = "candid_backend_get_preferred"]
           ELSE [th EXCEPT !.at = "get_lookup"]
    ELSE preferred_goes_on(th, FirstCompiled(get_preferred_steps, 1))

\* The thread goes on to statement `to` of init_backends.
init_goes_on(th, to) ==
  IF to = "return" THEN init_returns(th) ELSE [th EXCEPT !.at = to]

ThreadVarsUnchanged == UNCHANGED <<build, facadeVars, pc, last, frames, meshVars>>

\* Thread t calls candid_backend_get(backend).
ThreadCalls(t, backend) ==
  /\ threads[t].at = "idle"
  /\ threads' = [threads EXCEPT ![t] =
                   [@ EXCEPT !.at = "init_check", !.in = "candid_backend_get",
                             !.arg = backend, !.backend = backend]]
  /\ UNCHANGED registryVars
  /\ ThreadVarsUnchanged

\* if (s_initialized) return;
ThreadChecksFlag(t) ==
  /\ threads[t].at = "init_check"
  /\ LET th == [threads[t] EXCEPT
                  !.checks = Append(@, [initialized |-> s_initialized,
                                        table |-> s_backends])]
     IN threads' = [threads EXCEPT ![t] =
                      IF s_initialized THEN init_returns(th)
                      ELSE init_goes_on(th, FirstCompiled(init_backends_steps, 1))]
  /\ UNCHANGED registryVars
  /\ ThreadVarsUnchanged

\* s_backends[CANDID_BACKEND_METAL] = &candid_metal_backend;
ThreadStoresMetal(t) ==
  /\ threads[t].at = "store_metal"
  /\ s_backends' = [s_backends EXCEPT ![CANDID_BACKEND_METAL] = candid_metal_backend]
  /\ threads' = [threads EXCEPT ![t] =
                   init_goes_on(@, Following(init_backends_steps, "store_metal"))]
  /\ UNCHANGED s_initialized
  /\ ThreadVarsUnchanged

\* s_backends[CANDID_BACKEND_VULKAN] = &candid_vulkan_backend;
ThreadStoresVulkan(t) ==
  /\ threads[t].at = "store_vulkan"
  /\ s_backends' = [s_backends EXCEPT ![CANDID_BACKEND_VULKAN] = candid_vulkan_backend]
  /\ threads' = [threads EXCEPT ![t] =
                   init_goes_on(@, Following(init_backends_steps, "store_vulkan"))]
  /\ UNCHANGED s_initialized
  /\ ThreadVarsUnchanged

\* s_initialized = true;
ThreadSetsFlag(t) ==
  /\ threads[t].at = "set_flag"
  /\ s_initialized' = TRUE
  /\ threads' = [threads EXCEPT ![t] =
                   init_goes_on(@, Following(init_backends_steps, "set_flag"))]
  /\ UNCHANGED s_backends
  /\ ThreadVarsUnchanged

\* if (s_backends[slot]) return slot; in candid_backend_get_preferred.
ThreadTriesSlot(t, step, slot) ==
  /\ threads[t].at = step
  /\ threads' = [threads EXCEPT ![t] =
                   IF s_backends[slot] # NULL
                     THEN preferred_returns(@, slot)
                     ELSE preferred_goes_on(@, Following(get_preferred_steps, step))]
  /\ UNCHANGED registryVars
  /\ ThreadVarsUnchanged

\* if (backend >= CANDID_BACKEND_COUNT) return NULL;
\* return s_backends[backend];
ThreadLooksUp(t) ==
  /\ threads[t].at = "get_lookup"
  /\ threads' = [threads EXCEPT ![t] =
                   [@ EXCEPT !.at = "done",
                             !.ret = IF threads[t].backend >= CANDID_BACKEND_COUNT
                                       THEN NULL
                                       ELSE s_backends[threads[t].backend]]]
  /\ UNCHANGED registryVars
  /\ ThreadVarsUnchanged

ThreadStep ==
  \E t \in Threads :
    \/ \E backend \in BackendArgs : ThreadCalls(t, backend)
    \/ ThreadChecksFlag(t)
    \/ ThreadStoresMetal(t)
    \/ ThreadStoresVulkan(t)
    \/ ThreadSetsFlag(t)
    \/ ThreadTriesSlot(t, "pref_metal", CANDID_BACKEND_METAL)
    \/ ThreadTriesSlot(t, "pref_vulkan", CANDID_BACKEND_VULKAN)
    \/ ThreadTriesSlot(t, "pref_d3d12", CANDID_BACKEND_D3D12)
    \/ ThreadLooksUp(t)

SpecThreads == Init /\ [][ThreadStep]_vars

(***************************************************************************)
(* Properties                                                              *)
(***************************************************************************)
Min(a, b) == IF a < b THEN a ELSE b

\* The concrete backends the table holds an interface for.
RegisteredBackends == {i \in 1..(CANDID_BACKEND_COUNT - 1) : s_backends[i] # NULL}

\* Facade functions that return a Candid_Result and take the renderer first.
ResultOps ==
  {"candid_renderer_resize", "candid_renderer_get_limits",
   "candid_renderer_create_buffer", "candid_renderer_create_texture",
   "candid_renderer_create_sampler", "candid_renderer_create_shader_module",
   "candid_renderer_create_shader_program", "candid_renderer_create_mesh",
   "candid_renderer_create_material", "candid_renderer_begin_frame",
   "candid_renderer_end_frame"}

DestroyOps ==
  {"candid_renderer_destroy_buffer", "candid_renderer_destroy_texture",
   "candid_renderer_destroy_sampler", "candid_renderer_destroy_shader_module",
   "candid_renderer_destroy_shader_program", "candid_renderer_destroy_mesh",
   "candid_renderer_destroy_material"}

SetterOps ==
  {"candid_renderer_set_clear_color", "candid_renderer_set_viewport",
   "candid_renderer_set_scissor", "candid_renderer_set_camera",
   "candid_renderer_set_view_projection"}

\* The functions C2 names: resize and the resource create / destroy calls.
ResourceOps ==
  {"candid_renderer_resize",
   "candid_renderer_create_buffer", "candid_renderer_create_texture",
   "candid_renderer_create_sampler", "candid_renderer_create_shader_module",
   "candid_renderer_create_shader_program", "candid_renderer_create_mesh",
   "candid_renderer_create_material"} \cup DestroyOps

\* The last call was candid_renderer_create with both pointers non-null.
CreateWithArgs ==
  /\ last.op = "candid_renderer_create"
  /\ last.arg[1] # NullPtr
  /\ last.arg[2] # NULL

----------------------------------------------------------------------------
\* C1: candid_renderer_create with a null config or a null output pointer
\* returns InvalidArgument before any registry lookup, allocation or backend
\* call, and leaves the registry, the heap, the devices and the caller's
\* renderer pointer as they were.
C1_CreateRejectsNullArguments ==
  [][(/\ last'.op = "candid_renderer_create"
      /\ (last'.arg[1] = NullPtr \/ last'.arg[2] = NULL))
     => /\ last'.ret = V(CANDID_ERROR_INVALID_ARGUMENT)
        /\ last'.lookups = <<>>
        /\ last'.allocs = <<>>
        /\ last'.calls = <<>>
        /\ ~last'.wrote_out
        /\ UNCHANGED <<registryVars, facadeVars, pc>>]_vars

\* A create call with a null config and a non-null output pointer, made while
\* the caller's pointer holds the address of an earlier renderer.
C1_Witness ==
  /\ last.op = "candid_renderer_create"
  /\ last.arg[1] = NullPtr
  /\ last.arg[2] # NULL
  /\ last.ret = V(CANDID_ERROR_INVALID_ARGUMENT)
  /\ handle # NULL

----------------------------------------------------------------------------
\* C2: after candid_renderer_destroy(r), resize or a resource create /
\* destroy call on the same pointer reads nothing of the freed renderer,
\* makes no backend call, and (when it returns a result) returns
\* InvalidArgument.
C2_UseAfterDestroyIsRejected ==
  (/\ last.op \in ResourceOps
   /\ last.arg[1] # NULL
   /\ heap[last.arg[1]] = "freed")
  => /\ last.deref = {}
     /\ last.calls = <<>>
     /\ last.op \notin DestroyOps => last.ret = V(CANDID_ERROR_INVALID_ARGUMENT)

----------------------------------------------------------------------------
\* C3 as amended: with non-null arguments candid_renderer_create first
\* allocates the renderer and returns OutOfMemory when that fails; when the
\* allocation succeeded it returns BackendNotSupported if no interface
\* resolves for config.backend, and the backend's own code if device_create
\* fails.  In all three cases no renderer and no device remain allocated and
\* the caller's pointer is not written.
C3_CreateFailureLeavesNothing ==
  [][(/\ last'.op = "candid_renderer_create"
      /\ last'.arg[1] # NullPtr
      /\ last'.arg[2] # NULL)
     => LET requested == last'.arg[1].backend
            resolves == candid_backend_get(requested, Reg).ret # NULL
            clean == /\ ~last'.wrote_out
                     /\ UNCHANGED <<heap, obj, devices, handle, pc>>
        IN /\ last'.allocs = <<"fail">>
              => last'.ret = V(CANDID_ERROR_OUT_OF_MEMORY) /\ last'.calls = <<>> /\ clean
           /\ (last'.allocs = <<"ok">> /\ ~resolves)
              => last'.ret = V(CANDID_ERROR_BACKEND_NOT_SUPPORTED)
                 /\ last'.calls = <<>> /\ clean
           /\ (last'.allocs = <<"ok">> /\ resolves)
              => /\ Len(last'.calls) = 1
                 /\ last'.calls[1].entry = "device_create"
                 /\ last'.ret = last'.calls[1].ret
                 /\ last'.ret # V(CANDID_SUCCESS) => clean]_vars

\* device_create failed with a code of its own and create handed it on.
C3_Witness ==
  /\ CreateWithArgs
  /\ last.allocs = <<"ok">>
  /\ Len(last.calls) = 1
  /\ last.ret = V(CANDID_ERROR_DEVICE_LOST)
  /\ \A a \in RendererAddrs : heap[a] # "live"

\* C3 as stated: with non-null arguments, create returns BackendNotSupported
\* whenever no interface resolves for config.backend, and the backend's code
\* when device_create fails, leaving nothing allocated and *out unwritten.
C3_AsStated ==
  CreateWithArgs
  => /\ candid_backend_get(last.arg[1].backend, Reg).ret = NULL
        => /\ last.ret = V(CANDID_ERROR_BACKEND_NOT_SUPPORTED)
           /\ ~last.wrote_out
           /\ \A a \in RendererAddrs : heap[a] # "live"
     /\ (last.calls # <<>> /\ last.calls[1].ret # V(CANDID_SUCCESS))
        => /\ last.ret = last.calls[1].ret
           /\ ~last.wrote_out
           /\ \A a \in RendererAddrs : heap[a] # "live"

----------------------------------------------------------------------------
\* C4: in every build, what candid_backend_get(AUTO) returned is what
\* candid_backend_get(candid_backend_get_preferred()) returns.
C4_GetAutoIsGetPreferred ==
  (last.op = "candid_backend_get" /\ last.arg[1] = CANDID_BACKEND_AUTO)
  => last.ret = V(candid_backend_get(candid_backend_get_preferred(Reg).ret, Reg).ret)

\* get(AUTO) returned the Vulkan interface in a Windows build.
C4_Witness ==
  /\ last.op = "candid_backend_get"
  /\ last.arg[1] = CANDID_BACKEND_AUTO
  /\ last.ret = V(candid_vulkan_backend)
  /\ "_WIN32" \in build

----------------------------------------------------------------------------
\* C5: every value candid_backend_get_available stored is a concrete backend
\* (not AUTO, below COUNT) that candid_backend_is_available reports true.
C5_AvailableAreAvailable ==
  last.op = "candid_backend_get_available"
  => \A k \in 1..Len(last.outw) :
       LET b == last.outw[k][2]
       IN /\ b # CANDID_BACKEND_AUTO
          /\ b < CANDID_BACKEND_COUNT
          /\ candid_backend_is_available(b, Reg).ret

\* Two backends were stored.
C5_Witness ==
  /\ last.op = "candid_backend_get_available"
  /\ Len(last.outw) = 2

----------------------------------------------------------------------------
\* C6: candid_backend_get_available returns k = min(max_count, number of
\* registered backends); with a non-null array it stores exactly the k
\* smallest registered backends at indices 0 .. k-1 in ascending order and
\* nothing at an index >= max_count; with a null array it stores nothing.
C6_AvailableAscendingBounded ==
  last.op = "candid_backend_get_available"
  => LET out == last.arg[1]
         max_count == last.arg[2]
         k == Min(max_count, Cardinality(RegisteredBackends))
     IN /\ last.ret = V(k)
        /\ \A j \in 1..Len(last.outw) : last.outw[j][1] < max_count
        /\ out = NULL => last.outw = <<>>
        /\ out # NULL
           => /\ Len(last.outw) = k
              /\ \A j \in 1..k :
                   /\ last.outw[j][1] = j - 1
                   /\ last.outw[j][2] \in RegisteredBackends
                   /\ Cardinality({x \in RegisteredBackends : x < last.outw[j][2]}) = j - 1

\* Two backends are registered and the array takes one.
C6_Witness ==
  /\ last.op = "candid_backend_get_available"
  /\ last.arg = <<1, 1>>
  /\ Cardinality(RegisteredBackends) = 2
  /\ last.outw = <<(<<0, CANDID_BACKEND_METAL>>)>>

----------------------------------------------------------------------------
\* C7: candid_backend_get_preferred returns the first registered backend in
\* the order Metal, Vulkan, D3D12, each considered only when its macro is
\* defined; it returns AUTO exactly when none of the three is registered; a
\* result other than AUTO is available.
PreferenceOrder ==
  <<[backend |-> CANDID_BACKEND_METAL, macro |-> "__APPLE__"],
    [backend |-> CANDID_BACKEND_VULKAN, macro |-> "CANDID_VULKAN_SUPPORT"],
    [backend |-> CANDID_BACKEND_D3D12, macro |-> "_WIN32"]>>

Eligible ==
  {i \in 1..3 : PreferenceOrder[i].macro \in build
                /\ s_backends[PreferenceOrder[i].backend] # NULL}

C7_PreferredIsFirstRegistered ==
  last.op = "candid_backend_get_preferred"
  => /\ last.ret = IF Eligible = {}
                     THEN V(CANDID_BACKEND_AUTO)
                     ELSE V(PreferenceOrder[CHOOSE i \in Eligible :
                                              \A j \in Eligible : i <= j].backend)
     /\ last.ret = V(CANDID_BACKEND_AUTO)
        <=> \A i \in 1..3 : s_backends[PreferenceOrder[i].backend] = NULL
     /\ last.ret # V(CANDID_BACKEND_AUTO)
        => candid_backend_is_available(last.ret.v, Reg).ret

\* Metal and Vulkan are both registered and Metal was preferred.
C7_Witness ==
  /\ last.op = "candid_backend_get_preferred"
  /\ last.ret = V(CANDID_BACKEND_METAL)
  /\ s_backends[CANDID_BACKEND_VULKAN] # NULL

----------------------------------------------------------------------------
\* C8: for every backend value, candid_backend_get returns a non-null
\* interface exactly when candid_backend_is_available returns true; a value
\* >= CANDID_BACKEND_COUNT gives null / false and no slot of the table is
\* read.
C8_GetNonNullIffAvailable ==
  /\ last.op = "candid_backend_get"
     => /\ (last.ret # V(NULL)) <=> candid_backend_is_available(last.arg[1], Reg).ret
        /\ last.arg[1] >= CANDID_BACKEND_COUNT
           => last.ret = V(NULL) /\ last.reads = {}
  /\ last.op = "candid_backend_is_available"
     => /\ last.ret.v <=> (candid_backend_get(last.arg[1], Reg).ret # NULL)
        /\ last.arg[1] >= CANDID_BACKEND_COUNT
           => last.ret = V(FALSE) /\ last.reads = {}

\* is_available(AUTO) answered false in a build with nothing registered.
C8_Witness ==
  /\ last.op = "candid_backend_is_available"
  /\ last.arg[1] = CANDID_BACKEND_AUTO
  /\ last.ret = V(FALSE)
  /\ RegisteredBackends = {}

----------------------------------------------------------------------------
\* C9: a registry call leaves the flag set; once the flag is set no registry
\* call changes the table or the flag, so each registry function returns the
\* same for the same argument before and after every later call.
C9_InitOnce ==
  [][/\ s_initialized'
     /\ s_initialized
        => /\ s_backends' = s_backends
           /\ candid_backend_get_preferred(Reg).ret = candid_backend_get_preferred(Reg').ret
           /\ \A b \in BackendArgs :
                /\ candid_backend_get(b, Reg).ret = candid_backend_get(b, Reg').ret
                /\ candid_backend_is_available(b, Reg).ret
                     = candid_backend_is_available(b, Reg').ret
           /\ \A n \in 0..MaxCount :
                candid_backend_get_available(1, n, Reg).outw
                  = candid_backend_get_available(1, n, Reg').outw]_vars

\* A call made after the table was populated found a backend in it.
C9_Witness ==
  /\ s_initialized
  /\ last.was_initialized
  /\ last.op = "candid_backend_is_available"
  /\ last.ret = V(TRUE)
  /\ RegisteredBackends # {}

----------------------------------------------------------------------------
\* C10: with a null renderer, every result-returning resource or frame
\* function returns InvalidArgument, every destroy_* and setter returns, and
\* none of them calls the backend, reads a renderer or changes any state.
C10_NullRendererRejected ==
  [][(/\ last'.op \in ResultOps \cup DestroyOps \cup SetterOps
      /\ last'.arg[1] = NULL)
     => /\ last'.op \in ResultOps => last'.ret = V(CANDID_ERROR_INVALID_ARGUMENT)
        /\ last'.op \notin ResultOps => last'.ret = Void
        /\ last'.calls = <<>>
        /\ last'.deref = {}
        /\ UNCHANGED <<registryVars, facadeVars, pc>>]_vars

\* end_frame(NULL) was refused before any renderer was created.
C10_Witness ==
  /\ last.op = "candid_renderer_end_frame"
  /\ last.arg[1] = NULL
  /\ last.ret = V(CANDID_ERROR_INVALID_ARGUMENT)
  /\ \A a \in RendererAddrs : heap[a] = "unalloc"

(***************************************************************************)
(* Frames, pass-through, device ownership, camera                          *)
(***************************************************************************)
\* The pointer r refers to a live renderer in the heap h.
LiveIn(h, r) == IF r = NULL THEN FALSE ELSE h[r] = "live"

\* The calls between begin_frame and end_frame that the claim names.
FrameIdleOps ==
  {"candid_renderer_begin_frame", "candid_renderer_draw_mesh",
   "candid_renderer_draw_submesh", "candid_renderer_draw_mesh_instanced"}

\* The forwarding functions C13 names, each with its backend entry.
PassThroughOps ==
  {"candid_renderer_resize", "candid_renderer_get_limits", "candid_renderer_end_frame",
   "candid_renderer_create_buffer", "candid_renderer_create_texture",
   "candid_renderer_create_sampler", "candid_renderer_create_shader_module",
   "candid_renderer_create_shader_program", "candid_renderer_create_mesh",
   "candid_renderer_create_material"}

PassThroughEntry(op) ==
  CASE op = "candid_renderer_resize" -> "swapchain_resize"
    [] op = "candid_renderer_get_limits" -> "device_get_limits"
    [] op = "candid_renderer_end_frame" -> "swapchain_present"
    [] op = "candid_renderer_create_buffer" -> "buffer_create"
    [] op = "candid_renderer_create_texture" -> "texture_create"
    [] op = "candid_renderer_create_sampler" -> "sampler_create"
    [] op = "candid_renderer_create_shader_module" -> "shader_module_create"
    [] op = "candid_renderer_create_shader_program" -> "shader_program_create"
    [] op = "candid_renderer_create_mesh" -> "mesh_create"
    [] op = "candid_renderer_create_material" -> "material_create"
    [] OTHER -> "none"

\* The last call made exactly one backend call, of its own entry, with the
\* device of the renderer it was given, and returned that call's code.
PassedThrough ==
  /\ Len(last.calls) = 1
  /\ last.calls[1].entry = PassThroughEntry(last.op)
  /\ last.calls[1].device = obj[last.arg[1]].device
  /\ last.ret = last.calls[1].ret

\* The last call was one of the forwarding functions, on a live renderer.
PassThroughOnLive ==
  IF last.op \in PassThroughOps THEN LiveIn(heap, last.arg[1]) ELSE FALSE

----------------------------------------------------------------------------
\* C11: on a live renderer at most one frame is open at any time, that is, a
\* begin_frame made while an earlier begin_frame is unmatched is not accepted
\* (it returns InvalidArgument rather than Success), and an end_frame made
\* while no frame is open does not advance the frame counter.
C11_FrameNestingRejected ==
  [][ /\ LiveIn(heap', handle') => frames'.open <= 1
      /\ ( /\ last'.op = "candid_renderer_end_frame"
           /\ LiveIn(heap, handle)
           /\ frames'.ended = frames.ended + 1
           /\ frames.open = 0 )
         => obj'[handle].frame_count = obj[handle].frame_count ]_vars

----------------------------------------------------------------------------
\* C12: on a live renderer frame_count equals the number of end_frame calls
\* made since creation and get_frame_count returns it; every end_frame makes
\* exactly one swapchain_present call and advances the counter by one
\* whatever present returns; begin_frame and the draw calls make no backend
\* call and leave the counter alone.
C12_FrameCountCountsEndFrames ==
  [][ LiveIn(heap', handle') =>
        /\ obj'[handle'].frame_count = frames'.ended
        /\ last'.op = "candid_renderer_end_frame" =>
              /\ Len(last'.calls) = 1
              /\ last'.calls[1].entry = "swapchain_present"
              /\ last'.ret = last'.calls[1].ret
              /\ obj'[handle'].frame_count = obj[handle].frame_count + 1
        /\ last'.op \in FrameIdleOps =>
              /\ last'.calls = <<>>
              /\ obj'[handle'].frame_count = obj[handle].frame_count
        /\ last'.op = "candid_renderer_get_frame_count" =>
              last'.ret = V(frames'.ended) ]_vars

\* Two frames were ended, the second present reporting a lost device, and
\* the counter stands at two.
C12_Witness ==
  /\ Live(handle)
  /\ last.op = "candid_renderer_end_frame"
  /\ last.ret = V(CANDID_ERROR_DEVICE_LOST)
  /\ frames.ended = 2
  /\ obj[handle].frame_count = 2

----------------------------------------------------------------------------
\* C13 (amended): resize, end_frame, every create_* function and get_limits
\* with a non-null out, on a live renderer, make exactly one call of their
\* backend entry with the renderer's device and return exactly the code that
\* call returned; get_limits with a null out returns InvalidArgument and
\* makes no backend call.
C13_PassThrough ==
  PassThroughOnLive =>
    IF last.op = "candid_renderer_get_limits" /\ last.arg[2] = NULL
      THEN last.ret = V(CANDID_ERROR_INVALID_ARGUMENT) /\ last.calls = <<>>
      ELSE PassedThrough

\* A create_* call on a live renderer whose backend reported a lost device,
\* which is what the call returned.
C13_Witness ==
  /\ PassThroughOnLive
  /\ last.op = "candid_renderer_create_buffer"
  /\ PassedThrough
  /\ last.ret = V(CANDID_ERROR_DEVICE_LOST)

\* C13 as stated: every one of these functions, get_limits with any
\* arguments included, makes exactly one backend call on a live renderer and
\* returns its code.
C13_AsStated == PassThroughOnLive => PassedThrough

----------------------------------------------------------------------------
\* C14: every live renderer holds one live device and no device is live
\* without its renderer; a successful create calls device_create exactly
\* once; destroy of a live renderer calls device_destroy exactly once, with
\* the renderer's device, and releases the renderer; destroy(NULL) makes no
\* backend call; no other facade function calls device_create or
\* device_destroy or changes any device.
C14_OneDevicePerRenderer ==
  [][ /\ \A a \in RendererAddrs :
           heap'[a] = "live" =>
             /\ obj'[a].device \in DeviceAddrs
             /\ devices'[obj'[a].device] = "live"
      /\ Cardinality({d \in DeviceAddrs : devices'[d] = "live"})
           = Cardinality({a \in RendererAddrs : heap'[a] = "live"})
      /\ (last'.op = "candid_renderer_create" /\ last'.ret = V(CANDID_SUCCESS)) =>
           /\ Len(last'.calls) = 1
           /\ last'.calls[1].entry = "device_create"
      /\ last'.op = "candid_renderer_destroy" =>
           IF last'.arg[1] = NULL
             THEN last'.calls = <<>> /\ devices' = devices /\ heap' = heap
           ELSE IF heap[last'.arg[1]] = "live"
             THEN /\ last'.calls = <<[entry |-> "device_destroy",
                                       device |-> obj[last'.arg[1]].device,
                                       ret |-> Void]>>
                  /\ devices'[obj[last'.arg[1]].device] = "destroyed"
                  /\ heap'[last'.arg[1]] = "freed"
           ELSE TRUE
      /\ last'.op \notin {"candid_renderer_create", "candid_renderer_destroy"} =>
           /\ \A i \in 1..Len(last'.calls) :
                last'.calls[i].entry \notin {"device_create", "device_destroy"}
           /\ devices' = devices ]_vars

\* A renderer was created and then destroyed: its device was destroyed with
\* it.
C14_Witness ==
  /\ last.op = "candid_renderer_destroy"
  /\ last.arg[1] # NULL
  /\ Len(last.calls) = 1
  /\ last.calls[1].entry = "device_destroy"
  /\ heap[last.arg[1]] = "freed"
  /\ devices[last.calls[1].device] = "destroyed"

----------------------------------------------------------------------------
\* The step is a set_camera call on the live renderer.
SetCameraStep ==
  /\ last'.op = "candid_renderer_set_camera"
  /\ LiveIn(heap, handle)
  /\ last'.arg[1] = handle

\* The surface size is what the most recent resize (or create) stored.
SizeIsLatest ==
  /\ (last'.op = "candid_renderer_resize" /\ LiveIn(heap, handle)) =>
       /\ obj'[handle].width = last'.arg[2]
       /\ obj'[handle].height = last'.arg[3]
  /\ (last'.op = "candid_renderer_create" /\ last'.ret = V(CANDID_SUCCESS)) =>
       /\ obj'[handle'].width = last'.arg[1].width
       /\ obj'[handle'].height = last'.arg[1].height
  /\ SetCameraStep =>
       /\ obj'[handle].width = obj[handle].width
       /\ obj'[handle].height = obj[handle].height

\* C15 (amended): set_camera uses the camera's own aspect_ratio when it is
\* > 0; when it is <= 0 it uses width/height, as stored by the most recent
\* resize (or by create), if both are > 0, and otherwise keeps the camera's
\* aspect_ratio as it is; projection element [0][0] is
\* 1/(aspect*tan(fov_y/2)) for that aspect.
C15_CameraAspect ==
  [][ /\ SizeIsLatest
      /\ SetCameraStep =>
           LET camera == last'.arg[2]
               w == obj[handle].width
               h == obj[handle].height
               aspect == IF camera.aspect_ratio[1] > 0 THEN camera.aspect_ratio
                         ELSE IF w > 0 /\ h > 0 THEN <<w, h>>
                         ELSE camera.aspect_ratio
           IN obj'[handle].projection_matrix.m0
                = [one_over |-> [aspect |-> aspect, tan_half |-> camera.fov_y]] ]_vars

\* The renderer was resized to 4x3 (800x600) and a camera without an aspect
\* ratio of its own was set: element [0][0] is 1/((4/3)*tan(fov_y/2)).
C15_Witness ==
  /\ Live(handle)
  /\ last.op = "candid_renderer_set_camera"
  /\ last.arg[2].aspect_ratio = <<0, 1>>
  /\ obj[handle].width = 4
  /\ obj[handle].height = 3
  /\ obj[handle].projection_matrix.kind = "perspective"
  /\ obj[handle].projection_matrix.m0
       = [one_over |-> [aspect |-> <<4, 3>>, tan_half |-> 60]]

\* C15 as stated: whenever the camera's aspect_ratio is <= 0 the aspect used
\* is width/height of the stored size, whatever that size is.
C15_AsStated ==
  [][ /\ SizeIsLatest
      /\ SetCameraStep =>
           LET camera == last'.arg[2]
               aspect == IF camera.aspect_ratio[1] > 0 THEN camera.aspect_ratio
                         ELSE <<obj[handle].width, obj[handle].height>>
           IN obj'[handle].projection_matrix.m0
                = [one_over |-> [aspect |-> aspect, tan_half |-> camera.fov_y]] ]_vars

(***************************************************************************)
(* Mesh generators                                                         *)
(***************************************************************************)
GeneratorOps ==
  {"candid_mesh_create_cube", "candid_mesh_create_sphere",
   "candid_mesh_create_plane", "candid_mesh_create_cylinder"}

\* The six axis-aligned unit vectors.
AxisUnits ==
  {<<1, 0, 0>>, <<0 - 1, 0, 0>>, <<0, 1, 0>>, <<0, 0 - 1, 0>>, <<0, 0, 1>>, <<0, 0, 0 - 1>>}

\* The number of blocks handed out and not released.
Outstanding == Cardinality({a \in BufferAddrs : buffers[a].state = "live"})

\* The 32-bit count holds the mathematical product a * b.
IsProduct(count, a, b) == ~mul_u32(a, b).wrapped /\ count = mul_u32(a, b).val

\* The last call was create_cube with a positive size and a descriptor to
\* fill, and both allocations succeeded.
CubeCreated ==
  /\ last.op = "candid_mesh_create_cube"
  /\ last.arg[1] > 0
  /\ last.arg[2] # NULL
  /\ last.allocs = <<"ok", "ok">>

----------------------------------------------------------------------------
\* C16: candid_mesh_create_cube with size > 0 (a descriptor to fill, both
\* allocations succeeding) returns Success with 24 vertices and 36 16-bit
\* indices; every normal is an axis-aligned unit vector and the vertex lies
\* on the face of the cube [-size/2, size/2]^3 whose outward axis it is; the
\* loop of calculate_aabb over the vertices gives min = (-size/2)^3 and
\* max = (size/2)^3.  (Coordinates are in halves, so size/2 reads `size`.)
C16_CubeShape ==
  CubeCreated =>
    LET size == last.arg[1]
        verts == buffers[mesh_data.vertices].content
        inds == buffers[mesh_data.indices].content
    IN /\ last.ret = V(CANDID_SUCCESS)
       /\ mesh_data.vertex_count = U(24) /\ Len(verts) = 24
       /\ mesh_data.index_count = U(36) /\ Len(inds) = 36
       /\ mesh_data.index_format = "CANDID_INDEX_FORMAT_UINT16"
       /\ \A i \in 1..36 : inds[i] \in 0..(Limb - 1)
       /\ \A v \in 1..24 :
            /\ verts[v].normal \in AxisUnits
            /\ \A c \in 1..3 :
                 /\ verts[v].normal[c] # 0 => verts[v].position[c] = verts[v].normal[c] * size
                 /\ verts[v].position[c] \in {size, 0 - size}
       /\ aabb_loop(verts, 2, [min |-> verts[1].position, max |-> verts[1].position])
            = [min |-> <<0 - size, 0 - size, 0 - size>>, max |-> <<size, size, size>>]

\* A cube of size 1 was generated: the first vertex of its back face is at
\* (1/2, -1/2, -1/2) with normal -Z.
C16_Witness ==
  /\ CubeCreated
  /\ last.arg[1] = 1
  /\ last.ret = V(CANDID_SUCCESS)
  /\ buffers[mesh_data.vertices].content[5].normal = <<0, 0, 0 - 1>>
  /\ buffers[mesh_data.vertices].content[5].position = <<1, 0 - 1, 0 - 1>>

----------------------------------------------------------------------------
\* C17: candid_mesh_create_sphere returns InvalidArgument, with no
\* allocation and no store through out, when out is null or segments < 3 or
\* rings < 2; for every other input, when both allocations succeed, it
\* returns Success with vertex_count = (segments+1)*(rings+1) and
\* index_count = segments*rings*6.
C17_SphereCounts ==
  last.op = "candid_mesh_create_sphere" =>
    LET segments == last.arg[1]
        rings == last.arg[2]
        out == last.arg[3]
    IN IF out = NULL \/ lt_u32(segments, U(3)) \/ lt_u32(rings, U(2))
         THEN /\ last.ret = V(CANDID_ERROR_INVALID_ARGUMENT)
              /\ last.allocs = <<>>
              /\ ~last.wrote_out
       ELSE IF last.allocs = <<"ok", "ok">>
         THEN /\ last.ret = V(CANDID_SUCCESS)
              /\ ~add_u32(segments, U(1)).wrapped
              /\ ~add_u32(rings, U(1)).wrapped
              /\ IsProduct(mesh_data.vertex_count,
                           add_u32(segments, U(1)).val, add_u32(rings, U(1)).val)
              /\ ~mul_u32(segments, rings).wrapped
              /\ IsProduct(mesh_data.index_count, mul_u32(segments, rings).val, U(6))
       ELSE TRUE

----------------------------------------------------------------------------
\* C18: the descriptor's buffers are both null, with both counts 0, or both
\* populated, with vertex_count > 0, index_count > 0 and a multiple of 3,
\* and every stored index below vertex_count.  (2^16 leaves remainder 1
\* when divided by 3, so hi * 2^16 + lo and hi + lo leave the same one.)
C18_MeshDataInvariant ==
  IF mesh_data.vertices = NULL \/ mesh_data.indices = NULL
    THEN /\ mesh_data.vertices = NULL
         /\ mesh_data.indices = NULL
         /\ mesh_data.vertex_count = U(0)
         /\ mesh_data.index_count = U(0)
    ELSE /\ mesh_data.vertex_count # U(0)
         /\ mesh_data.index_count # U(0)
         /\ (mesh_data.index_count.hi + mesh_data.index_count.lo) % 3 = 0
         /\ \A i \in 1..Len(buffers[mesh_data.indices].content) :
              lt_u32(U(buffers[mesh_data.indices].content[i]), mesh_data.vertex_count)

----------------------------------------------------------------------------
\* C19: a generator call in which the vertex or the index allocation fails
\* returns OutOfMemory, leaves no block allocated that was not allocated
\* before the call, and leaves the descriptor as it was.
C19_AllOrNothing ==
  [][ ( /\ last'.op \in GeneratorOps
        /\ \E k \in 1..Len(last'.allocs) : last'.allocs[k] = "fail" )
      => /\ last'.ret = V(CANDID_ERROR_OUT_OF_MEMORY)
         /\ buffers' = buffers
         /\ mesh_data' = mesh_data ]_vars

\* The vertex allocation of a cylinder failed while the index allocation
\* succeeded; the index buffer was released again.
C19_Witness ==
  /\ last.op = "candid_mesh_create_cylinder"
  /\ last.allocs = <<"fail", "ok">>
  /\ last.ret = V(CANDID_ERROR_OUT_OF_MEMORY)
  /\ Len(last.frees) = 1
  /\ Outstanding = 0

----------------------------------------------------------------------------
\* C20: candid_mesh_data_free on a null descriptor does nothing; otherwise
\* it releases each non-null buffer of the descriptor exactly once, releases
\* nothing else and leaves the descriptor zeroed, so that a second call
\* releases nothing; when each generated mesh is freed before the next is
\* generated no allocation is outstanding after the free.
C20_FreeOnceAndZero ==
  [][ last'.op = "candid_mesh_data_free" =>
        IF last'.arg[1] = NULL
          THEN mesh_data' = mesh_data /\ buffers' = buffers /\ last'.frees = <<>>
          ELSE /\ last'.frees = SelectSeq(<<mesh_data.vertices, mesh_data.indices>>,
                                           LAMBDA p : p # NULL)
               /\ \A a \in BufferAddrs :
                    IF a \in {mesh_data.vertices, mesh_data.indices}
                      THEN buffers[a].state = "live" /\ buffers'[a].state = "unalloc"
                      ELSE buffers'[a] = buffers[a]
               /\ mesh_data' = ZeroMeshData
               /\ (mesh_data = ZeroMeshData => last'.frees = <<>>)
               /\ ( (\A a \in BufferAddrs :
                       buffers[a].state = "live"
                         => a \in {mesh_data.vertices, mesh_data.indices})
                     => Outstanding' = 0 ) ]_vars

\* Two meshes were generated and freed in turn, and the descriptor was
\* freed once more: that call released nothing and nothing is outstanding.
C20_Witness ==
  /\ generated = 2
  /\ last.op = "candid_mesh_data_free"
  /\ last.arg[1] # NULL
  /\ last.frees = <<>>
  /\ mesh_data = ZeroMeshData
  /\ Outstanding = 0

(***************************************************************************)
(* Bounding boxes                                                          *)
(***************************************************************************)
\* The call was candid_mesh_calculate_aabb with a descriptor and a box.
AabbCalled ==
  /\ last.op = "candid_mesh_calculate_aabb"
  /\ last.arg[1] # NULL
  /\ last.arg[2] # NULL

\* The smallest and the largest of a non-empty set of numbers.
MinOf(S) == CHOOSE x \in S : \A y \in S : x <= y
MaxOf(S) == CHOOSE x \in S : \A y \in S : x >= y

----------------------------------------------------------------------------
\* C21: candid_mesh_calculate_aabb returns InvalidArgument, having read no
\* vertex and written no box, when the descriptor's vertex pointer is null
\* or its vertex_count is 0.
C21_AabbRejectsEmpty ==
  ( /\ AabbCalled
    /\ (mesh_data.vertices = NULL \/ mesh_data.vertex_count = U(0)) )
  => /\ last.ret = V(CANDID_ERROR_INVALID_ARGUMENT)
     /\ last.vaccess = {}
     /\ last.outw = <<>>

----------------------------------------------------------------------------
\* C22: for a descriptor with vertex_count >= 1 vertices,
\* candid_mesh_calculate_aabb returns Success, reads exactly the vertices
\* 0 .. vertex_count - 1, stores the componentwise minimum and maximum of
\* their positions, and leaves the descriptor and its buffers unchanged.
C22_AabbIsMinMax ==
  [][ ( /\ last'.op = "candid_mesh_calculate_aabb"
        /\ last'.arg[1] # NULL
        /\ last'.arg[2] # NULL
        /\ mesh_data.vertices # NULL
        /\ CountOf(mesh_data.vertex_count) >= 1 )
      => LET n == CountOf(mesh_data.vertex_count)
             verts == buffers[mesh_data.vertices].content
         IN /\ last'.ret = V(CANDID_SUCCESS)
            /\ last'.vaccess = 0..(n - 1)
            /\ last'.outw =
                 << [min |-> <<MinOf({verts[i].position[1] : i \in 1..n}),
                               MinOf({verts[i].position[2] : i \in 1..n}),
                               MinOf({verts[i].position[3] : i \in 1..n})>>,
                     max |-> <<MaxOf({verts[i].position[1] : i \in 1..n}),
                               MaxOf({verts[i].position[2] : i \in 1..n}),
                               MaxOf({verts[i].position[3] : i \in 1..n})>>] >>
            /\ mesh_data' = mesh_data
            /\ buffers' = buffers ]_vars

\* The box of a single vertex away from the origin is that vertex twice.
C22_Witness ==
  /\ AabbCalled
  /\ last.ret = V(CANDID_SUCCESS)
  /\ mesh_data.vertex_count = U(1)
  /\ buffers[mesh_data.vertices].content[1].position = <<MaxCoord, 0, 0>>
  /\ last.outw = <<[min |-> <<MaxCoord, 0, 0>>, max |-> <<MaxCoord, 0, 0>>]>>

(***************************************************************************)
(* Normals and tangents                                                    *)
(***************************************************************************)
\* The descriptor refers to two buffers of the sizes it announces, its
\* index_count is a multiple of 3 and every index is below vertex_count.
WellFormed(d, b) ==
  /\ d.vertices # NULL /\ d.indices # NULL
  /\ Len(b[d.vertices].content) = CountOf(d.vertex_count)
  /\ Len(b[d.indices].content) = CountOf(d.index_count)
  /\ CountOf(d.index_count) % 3 = 0
  /\ \A i \in 1..Len(b[d.indices].content) :
       b[d.indices].content[i] < CountOf(d.vertex_count)

\* The sum of the integer vectors f[1], ..., f[n].
RECURSIVE SumTo(_, _)
SumTo(f, n) == IF n = 0 THEN <<0, 0, 0>> ELSE Add3(SumTo(f, n - 1), f[n])

\* For index position i (from 1): the cross product of the edges of the
\* triangle the position belongs to if the position names vertex k, else
\* the zero vector.
FaceNormalAt(verts, inds, i, k) ==
  IF inds[i] # k THEN <<0, 0, 0>>
  ELSE LET j == 3 * ((i - 1) \div 3)
           p0 == verts[inds[j + 1] + 1].position
           p1 == verts[inds[j + 2] + 1].position
           p2 == verts[inds[j + 3] + 1].position
       IN Cross(Sub(p1, p0), Sub(p2, p0))

\* The float vector v is the unit vector along the integer vector s, or
\* zero when s is zero.
UnitAlong(v, s) ==
  IF s = <<0, 0, 0>>
    THEN v.num = <<0, 0, 0>>
    ELSE /\ Dot(v.num, v.num) = v.den2
         /\ Cross(v.num, s) = <<0, 0, 0>>
         /\ Dot(v.num, s) > 0

\* The step is a successful call of op on a well-formed mesh.
SurfaceStep(op) ==
  /\ last'.op = op
  /\ last'.ret = V(CANDID_SUCCESS)
  /\ WellFormed(mesh_data, buffers)

----------------------------------------------------------------------------
\* C23: on a mesh whose indices are in range and come in threes, a
\* successful candid_mesh_calculate_normals leaves each vertex with the unit
\* vector along the sum of the face normals of the triangles that name it
\* (zero when the sum is zero), whatever normal it held before and whichever
\* index format is used, and changes nothing else; called again at once it
\* leaves exactly the same normals.
NormalsStep ==
  SurfaceStep("candid_mesh_calculate_normals") =>
        LET verts == buffers[mesh_data.vertices].content
            after == buffers'[mesh_data.vertices].content
            inds == buffers[mesh_data.indices].content
        IN /\ mesh_data' = mesh_data
           /\ buffers'[mesh_data.indices] = buffers[mesh_data.indices]
           /\ \A k \in 1..Len(verts) :
                /\ after[k] = [verts[k] EXCEPT !.normal = after[k].normal]
                /\ UnitAlong(after[k].normal,
                             SumTo([i \in 1..Len(inds) |->
                                      FaceNormalAt(verts, inds, i, k - 1)], Len(inds)))
           /\ ( last.op = "candid_mesh_calculate_normals"
                /\ last.ret = V(CANDID_SUCCESS) )
              => \A k \in 1..Len(verts) : after[k].normal = verts[k].normal

C23_NormalsIdempotent == [][NormalsStep]_vars

\* candid_mesh_calculate_normals was called twice in a row on a triangle
\* with 32-bit indices whose first vertex has a normal.
C23_Witness ==
  /\ last.op = "candid_mesh_calculate_normals"
  /\ last.ret = V(CANDID_SUCCESS)
  /\ last.again
  /\ WellFormed(mesh_data, buffers)
  /\ mesh_data.index_format = "CANDID_INDEX_FORMAT_UINT32"
  /\ buffers[mesh_data.vertices].content[1].normal.num # <<0, 0, 0>>

\* The normal is of unit length.
IsUnit(v) == Dot(v.num, v.num) = v.den2

\* Every triangle of the mesh has a non-zero area in texture space.
UvNonDegenerate(verts, inds) ==
  \A j \in 0..((Len(inds) \div 3) - 1) :
    LET uv0 == verts[inds[3 * j + 1] + 1].texcoord0
        uv1 == verts[inds[3 * j + 2] + 1].texcoord0
        uv2 == verts[inds[3 * j + 3] + 1].texcoord0
    IN (uv1[1] - uv0[1]) * (uv2[2] - uv0[2]) # (uv2[1] - uv0[1]) * (uv1[2] - uv0[2])

\* The two directions candid_mesh_calculate_tangents derives from the
\* triangle that index position i (from 1) belongs to, for determinants of
\* the texture-space edges in {-1, 0, 1}: dividing by such a determinant
\* is multiplying by it, and a zero determinant is replaced by 1.
TriangleDirs(verts, inds, i) ==
  LET j == 3 * ((i - 1) \div 3)
      v0 == verts[inds[j + 1] + 1]
      v1 == verts[inds[j + 2] + 1]
      v2 == verts[inds[j + 3] + 1]
      e1 == Sub(v1.position, v0.position)
      e2 == Sub(v2.position, v0.position)
      s1 == v1.texcoord0[1] - v0.texcoord0[1]
      t1 == v1.texcoord0[2] - v0.texcoord0[2]
      s2 == v2.texcoord0[1] - v0.texcoord0[1]
      t2 == v2.texcoord0[2] - v0.texcoord0[2]
      det == s1 * t2 - s2 * t1
      r == IF det = 0 THEN 1 ELSE det
  IN [sdir |-> Times(Sub(Times(e1, t2), Times(e2, t1)), r),
      tdir |-> Times(Sub(Times(e2, s1), Times(e1, s2)), r)]

\* The tangent accumulated on vertex k: the sum of sdir over the index
\* positions that name k.
AccumulatedTangent(verts, inds, k) ==
  SumTo([i \in 1..Len(inds) |->
           IF inds[i] = k THEN TriangleDirs(verts, inds, i).sdir ELSE <<0, 0, 0>>],
        Len(inds))

\* The bitangent accumulated on vertex k.
AccumulatedBitangent(verts, inds, k) ==
  SumTo([i \in 1..Len(inds) |->
           IF inds[i] = k THEN TriangleDirs(verts, inds, i).tdir ELSE <<0, 0, 0>>],
        Len(inds))

\* What is left of the integer vector t once its component along the unit
\* normal n is taken away.
Residual(n, t) == Sub(t, Times(n.num, Dot(n.num, t)))

\* The step is a successful call of candid_mesh_calculate_tangents on a
\* well-formed mesh; it changes nothing but the tangents and gives every
\* vertex tangent.w = -1 when cross(normal, accumulated tangent) .
\* accumulated bitangent < 0 and +1 otherwise.
TangentsStepSigns ==
  LET verts == buffers[mesh_data.vertices].content
      after == buffers'[mesh_data.vertices].content
      inds == buffers[mesh_data.indices].content
  IN /\ mesh_data' = mesh_data
     /\ buffers'[mesh_data.indices] = buffers[mesh_data.indices]
     /\ \A k \in 1..Len(verts) :
          /\ after[k] = [verts[k] EXCEPT !.tangent = after[k].tangent]
          /\ after[k].tangent.w \in {0 - 1, 1}
          /\ after[k].tangent.w = 0 - 1 <=>
               Dot(Cross(verts[k].normal.num, AccumulatedTangent(verts, inds, k - 1)),
                   AccumulatedBitangent(verts, inds, k - 1)) < 0

\* Every normal of the mesh is of unit length and no triangle is degenerate
\* in texture space.
UnitNormalsAndUv(b, d) ==
  /\ \A k \in 1..Len(b[d.vertices].content) : IsUnit(b[d.vertices].content[k].normal)
  /\ UvNonDegenerate(b[d.vertices].content, b[d.indices].content)

TangentsStepAsStated ==
  SurfaceStep("candid_mesh_calculate_tangents") =>
    /\ TangentsStepSigns
    /\ UnitNormalsAndUv(buffers, mesh_data) =>
         \A k \in 1..Len(buffers[mesh_data.vertices].content) :
           LET v == buffers'[mesh_data.vertices].content[k]
           IN /\ IsUnit(v.tangent.xyz)
              /\ Dot(v.tangent.xyz.num, v.normal.num) = 0

\* C24 as stated: after a successful candid_mesh_calculate_tangents on a
\* mesh with unit normals and triangles that are not degenerate in texture
\* space, every tangent.xyz is of unit length and orthogonal to the normal;
\* on any mesh tangent.w is -1 or +1, -1 exactly when cross(normal,
\* accumulated tangent) . accumulated bitangent < 0.
C24_AsStated == [][TangentsStepAsStated]_vars

TangentsStep ==
  SurfaceStep("candid_mesh_calculate_tangents") =>
    /\ TangentsStepSigns
    /\ \A k \in 1..Len(buffers[mesh_data.vertices].content) :
         LET v == buffers'[mesh_data.vertices].content[k]
             inds == buffers[mesh_data.indices].content
             res == Residual(v.normal,
                             AccumulatedTangent(buffers[mesh_data.vertices].content,
                                                inds, k - 1))
         IN IsUnit(v.normal) =>
              /\ UnitAlong(v.tangent.xyz, res)
              /\ Dot(v.tangent.xyz.num, v.normal.num) = 0

\* C24 (amended): after a successful candid_mesh_calculate_tangents on a
\* well-formed mesh, every vertex with a unit normal whose accumulated
\* tangent has a component across the normal gets the unit vector along
\* that component, which is orthogonal to the normal, and every other
\* vertex with a unit normal gets the zero tangent; on any mesh tangent.w
\* is -1 or +1, -1 exactly when cross(normal, accumulated tangent) .
\* accumulated bitangent < 0.
C24_TangentsOrthonormalOrZero == [][TangentsStep]_vars

\* candid_mesh_calculate_tangents succeeded on a triangle with unit normals
\* and mirrored texture coordinates: the first vertex has a unit tangent
\* orthogonal to its normal and tangent.w = -1.
C24_Witness ==
  /\ last.op = "candid_mesh_calculate_tangents"
  /\ last.ret = V(CANDID_SUCCESS)
  /\ WellFormed(mesh_data, buffers)
  /\ UnitNormalsAndUv(buffers, mesh_data)
  /\ LET v == buffers[mesh_data.vertices].content[1]
     IN /\ IsUnit(v.tangent.xyz)
        /\ Dot(v.tangent.xyz.num, v.normal.num) = 0
        /\ v.tangent.w = 0 - 1

\* C26: whenever candid_mesh_calculate_normals or
\* candid_mesh_calculate_tangents ran its loops on non-null buffers, every
\* index position it read is below index_count and every vertex or
\* accumulator slot it accessed is below vertex_count.
C26_AccessesInBounds ==
  ( /\ last.op \in {"candid_mesh_calculate_normals", "candid_mesh_calculate_tangents"}
    /\ last.ret \in {V(CANDID_SUCCESS), Crash} ) =>
      /\ \A p \in last.iread : p < CountOf(mesh_data.index_count)
      /\ \A k \in last.vaccess : k < CountOf(mesh_data.vertex_count)

(***************************************************************************)
(* Concurrent first calls of the registry                                  *)
(***************************************************************************)
\* The registry before any call.
FreshRegistry == [backends |-> [i \in Slots |-> NULL], initialized |-> FALSE]

\* The table a single thread leaves behind after its first call.
RegisteredTable == init_backends(FreshRegistry).backends

\* The slots init_backends registers in this build.
SlotsToRegister == {i \in Slots : RegisteredTable[i] # NULL}

\* The step stores in a slot only the value the slot has in the table of a
\* single-threaded first call.
WritesOneValue ==
  \A i \in Slots : s_backends'[i] # s_backends[i] => s_backends'[i] = RegisteredTable[i]

\* After the step s_initialized is not set while a slot to be registered is
\* null, and no thread has read s_initialized as set from such a table.
NeverInitializedUnfilled ==
  /\ s_initialized' => \A i \in SlotsToRegister : s_backends'[i] # NULL
  /\ \A t \in Threads :
       \A k \in 1..Len(threads'[t].checks) :
         threads'[t].checks[k].initialized =>
           \A i \in SlotsToRegister : threads'[t].checks[k].table[i] # NULL

\* After the step every thread that has returned holds what
\* candid_backend_get returns for its argument on a fresh registry.
ReturnsSequentialResult ==
  \A t \in Threads :
    threads'[t].at = "done" =>
      threads'[t].ret = candid_backend_get(threads'[t].arg, FreshRegistry).ret

\* C30: when two threads make their first registry call concurrently, in
\* every interleaving of the reads and stores of init_backends and of the
\* lookups, a slot is only ever stored with the one value a single thread
\* would store, s_initialized is never set (nor read as set) while a slot to
\* be registered is null, and each call returns what it returns in a
\* single-threaded run.
C30_ConcurrentInitBenign ==
  [][WritesOneValue /\ NeverInitializedUnfilled /\ ReturnsSequentialResult]_vars

\* Both threads found s_initialized clear, so both stored the whole table,
\* and both calls have returned an interface.
C30_Witness ==
  \A t \in Threads :
    /\ threads[t].at = "done"
    /\ threads[t].checks[1].initialized = FALSE
    /\ threads[t].ret # NULL
    /\ threads[t].arg # threads[3 - t].arg

(***************************************************************************)
(* Stored indices and the vertices they designate                          *)
(***************************************************************************)
\* The vertex number that index i (from 1) of a grid of quads designates:
\* cols quads per row, `row` vertices per row.
GridDesignated(cols, row, i) ==
  LET q == (i - 1) \div 6
      a == (q \div cols) * row + (q % cols)
  IN <<a, a + row, a + 1, a + 1, a + row, a + row + 1>>[((i - 1) % 6) + 1]

\* The vertex number that index i (from 1) of a cylinder designates: side
\* quads between the two side rings, then the fans of the top and of the
\* bottom cap around their centres.
CylinderDesignated(segments, i) ==
  LET ring == segments + 1
      top == 2 * ring
      bottom == top + 1 + ring
  IN IF i <= 6 * segments
       THEN LET s == (i - 1) \div 6
            IN <<s, s + ring, s + 1, s + 1, s + ring, s + ring + 1>>[((i - 1) % 6) + 1]
     ELSE IF i <= 9 * segments
       THEN LET s == (i - 6 * segments - 1) \div 3
            IN <<top, top + 1 + s + 1, top + 1 + s>>[((i - 6 * segments - 1) % 3) + 1]
     ELSE LET s == (i - 9 * segments - 1) \div 3
          IN <<bottom, bottom + 1 + s, bottom + 1 + s + 1>>[((i - 9 * segments - 1) % 3) + 1]

----------------------------------------------------------------------------
\* C25: when create_sphere, create_plane or create_cylinder returns Success,
\* no count wrapped modulo 2^32 (the loops stayed inside the buffers) and
\* every stored 16-bit index is the number of the vertex it designates.
C25_IndicesDesignateVertices ==
  ( /\ last.op \in {"candid_mesh_create_sphere", "candid_mesh_create_plane",
                     "candid_mesh_create_cylinder"}
    /\ last.ret = V(CANDID_SUCCESS) )
  => LET inds == buffers[mesh_data.indices].content
     IN /\ ~buffers[mesh_data.indices].overrun
        /\ ~buffers[mesh_data.vertices].overrun
        /\ \A i \in 1..Len(inds) :
             inds[i] =
               IF last.op = "candid_mesh_create_sphere"
                 THEN GridDesignated(last.arg[1].lo, last.arg[1].lo + 1, i)
               ELSE IF last.op = "candid_mesh_create_plane"
                 THEN GridDesignated(last.arg[1].lo, last.arg[1].lo + 1, i)
               ELSE CylinderDesignated(last.arg[1].lo, i)

(***************************************************************************)
(* Blocks a descriptor no longer refers to                                 *)
(***************************************************************************)
\* The allocated blocks that descriptor d does not refer to.
Unreachable(b, d) ==
  {a \in BufferAddrs : b[a].state = "live" /\ a \notin {d.vertices, d.indices}}

----------------------------------------------------------------------------
\* C27: a generator that returns Success leaves every block that was
\* allocated before as it was and makes the descriptor refer to two blocks
\* that were not allocated before, so the blocks the descriptor referred to
\* become unreachable; a generator that fails adds no unreachable block;
\* candid_mesh_data_free releases no unreachable block, so what is
\* outstanding after it is exactly what was unreachable before it: nothing
\* when every generated mesh was freed before the next generator call, the
\* first mesh's two buffers after create; create; free.
C27_GeneratorNeverReleases ==
  [][ /\ ( last'.op \in GeneratorOps /\ last'.ret = V(CANDID_SUCCESS) ) =>
           /\ \A a \in BufferAddrs :
                buffers[a].state = "live" => buffers'[a] = buffers[a]
           /\ mesh_data'.vertices # NULL /\ mesh_data'.indices # NULL
           /\ mesh_data'.vertices # mesh_data'.indices
           /\ buffers[mesh_data'.vertices].state = "unalloc"
           /\ buffers[mesh_data'.indices].state = "unalloc"
           /\ Unreachable(buffers', mesh_data')
                = Unreachable(buffers, mesh_data)
                    \cup ({mesh_data.vertices, mesh_data.indices} \ {NULL})
      /\ ( last'.op \in GeneratorOps
           /\ last'.ret \in {V(CANDID_ERROR_OUT_OF_MEMORY), V(CANDID_ERROR_INVALID_ARGUMENT)} ) =>
           Unreachable(buffers', mesh_data') = Unreachable(buffers, mesh_data)
      /\ ( last'.op = "candid_mesh_data_free" /\ last'.ret = Void ) =>
           /\ Unreachable(buffers', mesh_data') = Unreachable(buffers, mesh_data)
           /\ last'.arg[1] # NULL =>
                {a \in BufferAddrs : buffers'[a].state = "live"}
                  = Unreachable(buffers, mesh_data) ]_vars

\* create_cube; create_cube; data_free on one descriptor: the descriptor is
\* zeroed and the two buffers of the first cube are still allocated.
C27_Witness ==
  /\ last.op = "candid_mesh_data_free"
  /\ last.arg[1] # NULL
  /\ Len(last.frees) = 2
  /\ generated = 2
  /\ mesh_data = ZeroMeshData
  /\ Outstanding = 2
  /\ \A a \in BufferAddrs : buffers[a].state = "live" => buffers[a].gen = "cube"

(***************************************************************************)
(* Renderer state across resize; the clock                                 *)
(***************************************************************************)
----------------------------------------------------------------------------
\* C28: candid_renderer_resize on a live renderer makes one swapchain_resize
\* call and leaves the renderer with the requested width and height whatever
\* code that call returned, every other field (view matrix, projection
\* matrix, clear colour, frame counter, device, backend) being as before.
C28_ResizeStoresSize ==
  [][ ( /\ last'.op = "candid_renderer_resize"
        /\ LiveIn(heap, last'.arg[1]) )
      => LET r == last'.arg[1]
         IN /\ Len(last'.calls) = 1
            /\ last'.calls[1].entry = "swapchain_resize"
            /\ last'.ret = last'.calls[1].ret
            /\ obj'[r] = [obj[r] EXCEPT !.width = last'.arg[2], !.height = last'.arg[3]]
            /\ obj'[r].view_matrix = obj[r].view_matrix
            /\ obj'[r].projection_matrix = obj[r].projection_matrix
            /\ obj'[r].clear_color = obj[r].clear_color
            /\ obj'[r].frame_count = obj[r].frame_count ]_vars

\* A renderer whose camera was set was resized to 4x3, the backend reporting
\* a lost device: the size is 4x3 and the projection is still the camera's.
C28_Witness ==
  /\ Live(handle)
  /\ last.op = "candid_renderer_resize"
  /\ last.ret = V(CANDID_ERROR_DEVICE_LOST)
  /\ last.arg[2] = 4 /\ last.arg[3] = 3
  /\ obj[handle].width = 4 /\ obj[handle].height = 3
  /\ obj[handle].projection_matrix.kind = "perspective"

----------------------------------------------------------------------------
====
